---------------------------- MODULE Spec2Model ----------------------------
(***************************************************************************)
(* Loyalty ledger of kerm1977/calendario ("La Tribu"): the Member balance  *)
(* cache (puntos_totales), the PointLog ledger, the Booking lifecycle, the *)
(* birthday bonus, the integrity audit and the transfer / redemption       *)
(* routes, modelled handler by handler from rutas.py, app.py, puntos.py,   *)
(* perfil.py, logistica.py and db.py.                                      *)
(*                                                                         *)
(* Every request handler is one atomic database transaction: it is a pure  *)
(* operator from the database before the request to the database after it *)
(* (with the handler's response), and one action commits its result.       *)
(*                                                                         *)
(* Requests served at the same time (app.run serves each request in its    *)
(* own thread, with its own SQLAlchemy session) are modelled step by step: *)
(* each SELECT of the handler reads the database as it is at that moment,  *)
(* and the flush and commit at the end write what the handler changed.     *)
(***************************************************************************)
EXTENDS Integers, Sequences, FiniteSets, TLC

VARIABLES
    today,          \* the ambient clock: [year, day]; day stands for (month, day)
    members,        \* table member:  id -> row
    events,         \* table event:   id -> row
    bookings,       \* table booking: id -> row
    logs,           \* table point_log, in insertion order
    notifications,  \* table admin_notification, in insertion order
    resp,           \* the response of the last request handled
    sessions,       \* the requests being served: what each has read so far
    created_at      \* point_log.created_at of the rows the last enrollment of a
                    \* new member inserted, in insertion order

vars == <<today, members, events, bookings, logs, notifications, resp, sessions,
          created_at>>

---------------------------------------------------------------------------
(* Bounds of the model. *)

MaxMembers == 2
MaxEvents == 2
MaxBookings == 3
MaxYears == 2
NDays == 2
MaxOps == 2
MaxOpsLedger == 4
MaxOpsBonus == 3
MaxOpsBooking == 4
MaxOpsCanje == 4
MaxOpsEvento == 4
MaxOpsFallo == 2
MaxRequests == 2
MaxOpsCumple == 3
MaxOpsSaldo == 3
MaxOpsRegalo == 4
MaxOpsAudit == 4
MaxOpsReloj == 2
MaxReloj == 3

MemberIds == 1..MaxMembers
EventIds == 1..MaxEvents
BookingIds == 1..MaxBookings
Years == 1..MaxYears
Days == 1..NDays

(* Inputs of the requests. *)
EventPoints == {0, 20}
BirthDates == 0..(NDays - 1)    \* 0: no birth date given
Phones == 1..MaxMembers
AdjustAmounts == {-600, 30}
SaldoAmounts == {-30, 600}
SaldoActions == {"restituir", "donar", "eliminar", "otra"}
GiftAmounts == {-20, 0, 20, 600}
CumpleAmounts == {100, 250}
CanjeCostos == {-100, 5000, 20000}
CompraCantidades == {999, 10000}
AuditAmounts == {-510, 30}

(* Program constants. *)
WELCOME_BONUS == 500
monto_bono == 500
bonus == 500
MIN_CANJE == 5000
Segundo == 2           \* timedelta(seconds=1), in readings of the clock
COMPRA_MIN == 1000
COMPRA_MAX == 10000
CUMPLE_MIN == 250
CUMPLE_MAX == 1000

---------------------------------------------------------------------------
(* Rows. *)

NoMember == [exists |-> FALSE, telefono |-> 0, birth_date |-> 0,
             puntos_totales |-> 0, ultimo_regalo_bday |-> 0]

Member(tel, birth, pts, yr) ==
    [exists |-> TRUE, telefono |-> tel, birth_date |-> birth,
     puntos_totales |-> pts, ultimo_regalo_bday |-> yr]

NoEvent == [exists |-> FALSE, points_reward |-> 0]

Event(pts) == [exists |-> TRUE, points_reward |-> pts]

NoBooking == [exists |-> FALSE, event_id |-> 0, member_id |-> 0,
              status |-> "", points_at_registration |-> 0]

Booking(e, m, pts, st) ==
    [exists |-> TRUE, event_id |-> e, member_id |-> m,
     status |-> st, points_at_registration |-> pts]

PointLog(s, m, type, desc, amt, b, pen) ==
    [member_id |-> m, transaction_type |-> type, description |-> desc,
     amount |-> amt, booking_id |-> b, is_penalized |-> pen, year |-> s.today.year]

AdminNotification(title, m, amt) ==
    [title |-> title, member_id |-> m, amount |-> amt]

Response(op, result, id, id2, amt) ==
    [op |-> op, result |-> result, id |-> id, id2 |-> id2, amount |-> amt]

---------------------------------------------------------------------------
(* Helpers. *)

max(a, b) == IF a >= b THEN a ELSE b

RECURSIVE SumAmounts(_)
SumAmounts(q) == IF q = <<>> THEN 0 ELSE Head(q).amount + SumAmounts(Tail(q))

LogsOf(s, m) == SelectSeq(s.logs, LAMBDA l : l.member_id = m)

\* func.sum(PointLog.amount) ... .scalar() or 0
real_sum(s, m) == SumAmounts(LogsOf(s, m))

\* event.points_reward or 10
val_pts(ev) == IF ev.points_reward = 0 THEN 10 ELSE ev.points_reward

\* birth_date.month == today.month and birth_date.day == today.day
is_birthday(birth, t) == birth # 0 /\ birth = t.day

\* SQLite rowid of a new row: one more than the largest in the table
NextId(table, ids) ==
    LET used == {i \in ids : table[i].exists}
    IN IF used = {} THEN 1
       ELSE (CHOOSE i \in used : \A j \in used : j <= i) + 1

Respond(s, r) == [s EXCEPT !.resp = r]

AddLog(s, l) == [s EXCEPT !.logs = Append(@, l)]

Notify(s, n) == [s EXCEPT !.notifications = Append(@, n)]

SetPuntos(s, m, pts) == [s EXCEPT !.members[m].puntos_totales = pts]

\* a return before anything is written: only the response is new
Return(s, op, result) == Respond(s, Response(op, result, 0, 0, 0))

\* the failure that is answered with an error and rolls nothing back
Commit_sin_rollback(s, t, ok, op, id) ==
    IF ok THEN t ELSE Respond(t, Response(op, "error", 0, 0, 0))

\* try: ... db.session.commit()  except: db.session.rollback()
Commit(s, t, ok, op, id) ==
    IF ok THEN t ELSE Return(s, op, "error")

---------------------------------------------------------------------------
(* rutas.py: the booking routes and the audit. *)

\* the withdrawal that takes back what the activity is worth now, not what
\* the booking recorded
cancel_booking_valor_actual(s, booking_id, ok) ==
    LET booking == s.bookings[booking_id]
        m == booking.member_id
        member == s.members[m]
        event == s.events[booking.event_id]
        pts_a_quitar == event.points_reward
        s1 == SetPuntos(s, m, max(0, member.puntos_totales - pts_a_quitar))
        s2 == AddLog(s1, PointLog(s, m, "Retiro", "Deducción por retiro", -pts_a_quitar, booking_id, FALSE))
        s3 == [s2 EXCEPT !.bookings[booking_id].status = "Retirado"]
        s4 == Notify(s3, AdminNotification("Retiro de Aventura", m, pts_a_quitar))
    IN IF ~booking.exists
       THEN Return(s, "cancel_booking", "404")
       ELSE IF booking.status = "Retirado"
       THEN Return(s, "cancel_booking", "info")
       ELSE Commit(s,
                   Respond(s4, Response("cancel_booking", "warning", booking_id, m, pts_a_quitar)),
                   ok, "cancel_booking", booking_id)

\* the withdrawal that takes back what the activity is worth at the time of
\* the withdrawal
cancel_booking_valor_vigente(s, booking_id, ok) ==
    LET booking == s.bookings[booking_id]
        m == booking.member_id
        member == s.members[m]
        event == s.events[booking.event_id]
        pts_a_quitar == val_pts(event)
        s1 == SetPuntos(s, m, max(0, member.puntos_totales - pts_a_quitar))
        s2 == AddLog(s1, PointLog(s, m, "Retiro", "Deducción por retiro", -pts_a_quitar, booking_id, FALSE))
        s3 == [s2 EXCEPT !.bookings[booking_id].status = "Retirado"]
        s4 == Notify(s3, AdminNotification("Retiro de Aventura", m, pts_a_quitar))
    IN IF ~booking.exists
       THEN Return(s, "cancel_booking", "404")
       ELSE IF booking.status = "Retirado"
       THEN Return(s, "cancel_booking", "info")
       ELSE Commit(s,
                   Respond(s4, Response("cancel_booking", "warning", booking_id, m, pts_a_quitar)),
                   ok, "cancel_booking", booking_id)

cancel_booking(s, booking_id, ok) ==
    LET booking == s.bookings[booking_id]
        m == booking.member_id
        member == s.members[m]
        event == s.events[booking.event_id]
        pts_a_quitar ==
            IF booking.points_at_registration # 0
            THEN booking.points_at_registration
            ELSE val_pts(event)
        s1 == SetPuntos(s, m, max(0, member.puntos_totales - pts_a_quitar))
        s2 == AddLog(s1, PointLog(s, m, "Retiro", "Deducción por retiro", -pts_a_quitar, booking_id, FALSE))
        s3 == [s2 EXCEPT !.bookings[booking_id].status = "Retirado"]
        s4 == Notify(s3, AdminNotification("Retiro de Aventura", m, pts_a_quitar))
    IN IF ~booking.exists
       THEN Return(s, "cancel_booking", "404")
       ELSE IF booking.status = "Retirado"
       THEN Return(s, "cancel_booking", "info")
       ELSE Commit(s,
                   Respond(s4, Response("cancel_booking", "warning", booking_id, m, pts_a_quitar)),
                   ok, "cancel_booking", booking_id)

adjust_points(s, member_id, amount, ok) ==
    LET member == s.members[member_id]
        s1 == SetPuntos(s, member_id, member.puntos_totales + amount)
        s2 == AddLog(s1, PointLog(s, member_id, "Ajuste Manual", "Ajuste manual administrativo", amount, 0, FALSE))
        s3 == Notify(s2, AdminNotification("Ajuste Manual Rápido", member_id, amount))
    IN IF ~member.exists
       THEN Return(s, "adjust_points", "404")
       ELSE Commit(s,
                   Respond(s3, Response("adjust_points", "success", member_id, 0, amount)),
                   ok, "adjust_points", member_id)

\* the audit reports the gap and leaves the balance as it found it
integrity_check_report_only(s, member_id) ==
    LET member == s.members[member_id]
        sum == real_sum(s, member_id)
        desfase == sum - member.puntos_totales
        s2 == Notify(s, AdminNotification("Corrección de Integridad", member_id, desfase))
    IN IF ~member.exists
       THEN Return(s, "integrity_check", "404")
       ELSE IF member.puntos_totales # sum
       THEN Respond(s2, Response("integrity_check", "info", member_id, 0, desfase))
       ELSE Respond(s, Response("integrity_check", "success", member_id, 0, 0))

\* the audit books its correction in the ledger as one more entry
integrity_check_con_asiento(s, member_id) ==
    LET member == s.members[member_id]
        sum == real_sum(s, member_id)
        desfase == sum - member.puntos_totales
        s0 == AddLog(s, PointLog(s, member_id, "Ajuste Manual", "Corrección de Integridad", desfase, 0, FALSE))
        s1 == SetPuntos(s0, member_id, sum)
        s2 == Notify(s1, AdminNotification("Corrección de Integridad", member_id, desfase))
    IN IF ~member.exists
       THEN Return(s, "integrity_check", "404")
       ELSE IF member.puntos_totales # sum
       THEN Respond(s2, Response("integrity_check", "info", member_id, 0, desfase))
       ELSE Respond(s, Response("integrity_check", "success", member_id, 0, 0))

integrity_check(s, member_id) ==
    LET member == s.members[member_id]
        sum == real_sum(s, member_id)
        desfase == sum - member.puntos_totales
        s1 == SetPuntos(s, member_id, sum)
        s2 == Notify(s1, AdminNotification("Corrección de Integridad", member_id, desfase))
    IN IF ~member.exists
       THEN Return(s, "integrity_check", "404")
       ELSE IF member.puntos_totales # sum
       THEN Respond(s2, Response("integrity_check", "info", member_id, 0, desfase))
       ELSE Respond(s, Response("integrity_check", "success", member_id, 0, 0))

\* FASE 2 of api_reserve: the Booking and its 'Inscripción' entry
nueva_reserva(t, m, event_id, pts) ==
    LET b == NextId(t.bookings, BookingIds)
        t1 == [t EXCEPT !.bookings[b] = Booking(event_id, m, pts, "Activo")]
    IN AddLog(t1, PointLog(t, m, "Inscripción", "Inscripción", pts, b, FALSE))

\* the search that overlooks the member's active booking
existing_booking_inactiva(s, m, event_id) ==
    LET found == {b \in BookingIds : /\ s.bookings[b].exists
                                     /\ s.bookings[b].member_id = m
                                     /\ s.bookings[b].event_id = event_id
                                     /\ s.bookings[b].status # "Activo"}
    IN IF found = {} THEN 0 ELSE CHOOSE b \in found : \A c \in found : b <= c

\* Booking.query.filter_by(member_id=..., event_id=...).first()
existing_booking(s, m, event_id) ==
    LET found == {b \in BookingIds : /\ s.bookings[b].exists
                                     /\ s.bookings[b].member_id = m
                                     /\ s.bookings[b].event_id = event_id}
    IN IF found = {} THEN 0 ELSE CHOOSE b \in found : \A c \in found : b <= c

\* the registration that never looks at the birthday
api_reserve_nuevo_sin_natalicio(s, event_id, telefono, birth) ==
    LET pts == val_pts(s.events[event_id])
        new_id == NextId(s.members, MemberIds)
        bono == FALSE
        reg_year_bono == IF bono THEN s.today.year ELSE 0
        puntos_ganados_hoy == pts + WELCOME_BONUS + (IF bono THEN 500 ELSE 0)
        n1 == [s EXCEPT !.members[new_id] =
                    Member(telefono, birth, puntos_ganados_hoy, reg_year_bono)]
        n2 == AddLog(n1, PointLog(s, new_id, "Bienvenida", "Registro Inicial", 0, 0, FALSE))
        n3 == AddLog(n2, PointLog(s, new_id, "Bono Bienvenida", "Regalo inicial", WELCOME_BONUS, 0, FALSE))
        n4 == IF reg_year_bono > 0
              THEN AddLog(n3, PointLog(s, new_id, "Bono Cumpleaños", "Bono natalicio inicial", 500, 0, FALSE))
              ELSE n3
        n5 == Notify(n4, AdminNotification("Nuevo Aventurero", new_id, 0))
        n6 == nueva_reserva(n5, new_id, event_id, pts)
    IN IF \E x \in MemberIds : s.members[x].exists /\ s.members[x].telefono = telefono
       THEN Return(s, "api_reserve", "telefono")
       ELSE Respond(n6, Response("api_reserve", "nuevo", new_id, event_id, puntos_ganados_hoy))

\* FLUJO: NUEVO AVENTURERO
api_reserve_nuevo(s, event_id, telefono, birth) ==
    LET pts == val_pts(s.events[event_id])
        new_id == NextId(s.members, MemberIds)
        bono == is_birthday(birth, s.today)
        reg_year_bono == IF bono THEN s.today.year ELSE 0
        puntos_ganados_hoy == pts + WELCOME_BONUS + (IF bono THEN 500 ELSE 0)
        n1 == [s EXCEPT !.members[new_id] =
                    Member(telefono, birth, puntos_ganados_hoy, reg_year_bono)]
        n2 == AddLog(n1, PointLog(s, new_id, "Bienvenida", "Registro Inicial", 0, 0, FALSE))
        n3 == AddLog(n2, PointLog(s, new_id, "Bono Bienvenida", "Regalo inicial", WELCOME_BONUS, 0, FALSE))
        n4 == IF reg_year_bono > 0
              THEN AddLog(n3, PointLog(s, new_id, "Bono Cumpleaños", "Bono natalicio inicial", 500, 0, FALSE))
              ELSE n3
        n5 == Notify(n4, AdminNotification("Nuevo Aventurero", new_id, 0))
        n6 == nueva_reserva(n5, new_id, event_id, pts)
    IN IF \E x \in MemberIds : s.members[x].exists /\ s.members[x].telefono = telefono
       THEN Return(s, "api_reserve", "telefono")
       ELSE Respond(n6, Response("api_reserve", "nuevo", new_id, event_id, puntos_ganados_hoy))

\* the enrollment of a member that grants the bonus on every birthday
\* enrollment, whatever ultimo_regalo_bday says
api_reserve_pin_sin_ciclo(s, event_id, m) ==
    LET pts == val_pts(s.events[event_id])
        member == s.members[m]
        eb == existing_booking(s, m, event_id)
        r1 == [s EXCEPT !.bookings[eb].status = "Activo"]
        r2 == SetPuntos(r1, m, member.puntos_totales + pts)
        r3 == AddLog(r2, PointLog(s, m, "Reactivación", "Reincorporación", pts, eb, FALSE))
        r4 == Notify(r3, AdminNotification("Retorno", m, pts))
        grant == is_birthday(member.birth_date, s.today)
        e1 == SetPuntos(s, m, member.puntos_totales + pts)
        e2 == IF grant
              THEN AddLog([e1 EXCEPT !.members[m].puntos_totales = @ + bonus,
                                     !.members[m].ultimo_regalo_bday = s.today.year],
                          PointLog(s, m, "Bono Cumpleaños", "Bono natalicio", bonus, 0, FALSE))
              ELSE e1
        e3 == Notify(e2, AdminNotification("Nueva Inscripción", m, pts))
        e4 == nueva_reserva(e3, m, event_id, pts)
    IN IF eb # 0
       THEN IF s.bookings[eb].status # "Activo"
            THEN Respond(r4, Response("api_reserve", "reactivado", m, event_id, pts))
            ELSE Return(s, "api_reserve", "duplicado")
       ELSE Respond(e4, Response("api_reserve", "inscrito", m, event_id,
                                 pts + (IF grant THEN bonus ELSE 0)))

\* the enrollment with a PIN that brings back the withdrawn booking only: a
\* booking marked as no-show stays as it is
api_reserve_pin_solo_retirados(s, event_id, m) ==
    LET pts == val_pts(s.events[event_id])
        member == s.members[m]
        eb == existing_booking(s, m, event_id)
        r1 == [s EXCEPT !.bookings[eb].status = "Activo"]
        r2 == SetPuntos(r1, m, member.puntos_totales + pts)
        r3 == AddLog(r2, PointLog(s, m, "Reactivación", "Reincorporación", pts, eb, FALSE))
        r4 == Notify(r3, AdminNotification("Retorno", m, pts))
        grant == /\ is_birthday(member.birth_date, s.today)
                 /\ member.ultimo_regalo_bday # s.today.year
        e1 == SetPuntos(s, m, member.puntos_totales + pts)
        e2 == IF grant
              THEN AddLog([e1 EXCEPT !.members[m].puntos_totales = @ + bonus,
                                     !.members[m].ultimo_regalo_bday = s.today.year],
                          PointLog(s, m, "Bono Cumpleaños", "Bono natalicio", bonus, 0, FALSE))
              ELSE e1
        e3 == Notify(e2, AdminNotification("Nueva Inscripción", m, pts))
        e4 == nueva_reserva(e3, m, event_id, pts)
    IN IF eb # 0
       THEN IF s.bookings[eb].status = "Retirado"
            THEN Respond(r4, Response("api_reserve", "reactivado", m, event_id, pts))
            ELSE Return(s, "api_reserve", "duplicado")
       ELSE Respond(e4, Response("api_reserve", "inscrito", m, event_id,
                                 pts + (IF grant THEN bonus ELSE 0)))

\* FLUJO: MIEMBRO EXISTENTE (USO DE PIN)
\* the reactivation that records the activity's current reward on the booking
api_reserve_pin_regraba(s, event_id, m) ==
    LET pts == val_pts(s.events[event_id])
        member == s.members[m]
        eb == existing_booking(s, m, event_id)
        r1 == [s EXCEPT !.bookings[eb].status = "Activo",
                        !.bookings[eb].points_at_registration = pts]
        r2 == SetPuntos(r1, m, member.puntos_totales + pts)
        r3 == AddLog(r2, PointLog(s, m, "Reactivación", "Reincorporación", pts, eb, FALSE))
        r4 == Notify(r3, AdminNotification("Retorno", m, pts))
        e1 == SetPuntos(s, m, member.puntos_totales + pts)
        e3 == Notify(e1, AdminNotification("Nueva Inscripción", m, pts))
        e4 == nueva_reserva(e3, m, event_id, pts)
    IN IF eb # 0
       THEN IF s.bookings[eb].status # "Activo"
            THEN Respond(r4, Response("api_reserve", "reactivado", m, event_id, pts))
            ELSE Return(s, "api_reserve", "duplicado")
       ELSE Respond(e4, Response("api_reserve", "inscrito", m, event_id, pts))

api_reserve_pin(s, event_id, m) ==
    LET pts == val_pts(s.events[event_id])
        member == s.members[m]
        eb == existing_booking(s, m, event_id)
        r1 == [s EXCEPT !.bookings[eb].status = "Activo"]
        r2 == SetPuntos(r1, m, member.puntos_totales + pts)
        r3 == AddLog(r2, PointLog(s, m, "Reactivación", "Reincorporación", pts, eb, FALSE))
        r4 == Notify(r3, AdminNotification("Retorno", m, pts))
        grant == /\ is_birthday(member.birth_date, s.today)
                 /\ member.ultimo_regalo_bday # s.today.year
        e1 == SetPuntos(s, m, member.puntos_totales + pts)
        e2 == IF grant
              THEN AddLog([e1 EXCEPT !.members[m].puntos_totales = @ + bonus,
                                     !.members[m].ultimo_regalo_bday = s.today.year],
                          PointLog(s, m, "Bono Cumpleaños", "Bono natalicio", bonus, 0, FALSE))
              ELSE e1
        e3 == Notify(e2, AdminNotification("Nueva Inscripción", m, pts))
        e4 == nueva_reserva(e3, m, event_id, pts)
    IN IF eb # 0
       THEN IF s.bookings[eb].status # "Activo"
            THEN Respond(r4, Response("api_reserve", "reactivado", m, event_id, pts))
            ELSE Return(s, "api_reserve", "duplicado")
       ELSE Respond(e4, Response("api_reserve", "inscrito", m, event_id,
                                 pts + (IF grant THEN bonus ELSE 0)))

api_reserve(s, event_id, pin, telefono, birth, ok) ==
    IF ~s.events[event_id].exists
    THEN Return(s, "api_reserve", "error")
    ELSE IF pin # 0 /\ s.members[pin].exists
    THEN Commit(s, api_reserve_pin(s, event_id, pin), ok, "api_reserve", pin)
    ELSE Commit(s, api_reserve_nuevo(s, event_id, telefono, birth), ok, "api_reserve", 0)

\* the member is deleted and their bookings, and the ledger is left whole
delete_member_sin_historial(s, member_id, ok) ==
    LET s1 == [s EXCEPT !.bookings =
                    [b \in BookingIds |->
                        IF @[b].exists /\ @[b].member_id = member_id
                        THEN NoBooking ELSE @[b]]]
        s3 == Notify(s1, AdminNotification("Eliminación de Usuario", member_id, 0))
        s4 == [s3 EXCEPT !.members[member_id] = NoMember]
    IN IF ~s.members[member_id].exists
       THEN Return(s, "delete_member", "404")
       ELSE Commit(s, Respond(s4, Response("delete_member", "success", member_id, 0, 0)),
                   ok, "delete_member", member_id)

delete_member(s, member_id, ok) ==
    LET s1 == [s EXCEPT !.bookings =
                    [b \in BookingIds |->
                        IF @[b].exists /\ @[b].member_id = member_id
                        THEN NoBooking ELSE @[b]]]
        s2 == [s1 EXCEPT !.logs = SelectSeq(@, LAMBDA l : l.member_id # member_id)]
        s3 == Notify(s2, AdminNotification("Eliminación de Usuario", member_id, 0))
        s4 == [s3 EXCEPT !.members[member_id] = NoMember]
    IN IF ~s.members[member_id].exists
       THEN Return(s, "delete_member", "404")
       ELSE Commit(s, Respond(s4, Response("delete_member", "success", member_id, 0, 0)),
                   ok, "delete_member", member_id)

---------------------------------------------------------------------------
(* puntos.py: the admin panel. *)

\* the no-show that takes the points off with no floor at zero
registrar_no_participacion_sin_tope(s, booking_id, ok) ==
    LET booking == s.bookings[booking_id]
        m == booking.member_id
        member == s.members[m]
        event == s.events[booking.event_id]
        puntos_a_restar ==
            IF booking.points_at_registration # 0
            THEN booking.points_at_registration
            ELSE event.points_reward
        s1 == SetPuntos(s, m, member.puntos_totales - puntos_a_restar)
        s2 == AddLog(s1, PointLog(s, m, "Penalización", "No participación", -puntos_a_restar, booking_id, TRUE))
        s3 == [s2 EXCEPT !.bookings[booking_id].status = "No Participó"]
        s4 == Notify(s3, AdminNotification("No Participación (No Show)", m, puntos_a_restar))
    IN IF ~booking.exists
       THEN Return(s, "registrar_no_participacion", "404")
       ELSE IF booking.status \in {"Retirado", "No Participó"}
       THEN Return(s, "registrar_no_participacion", "procesado")
       ELSE Commit(s,
                   Respond(s4, Response("registrar_no_participacion", "warning",
                                        booking_id, m, puntos_a_restar)),
                   ok, "registrar_no_participacion", booking_id)

registrar_no_participacion(s, booking_id, ok) ==
    LET booking == s.bookings[booking_id]
        m == booking.member_id
        member == s.members[m]
        event == s.events[booking.event_id]
        puntos_a_restar ==
            IF booking.points_at_registration # 0
            THEN booking.points_at_registration
            ELSE event.points_reward
        s1 == SetPuntos(s, m, max(0, member.puntos_totales - puntos_a_restar))
        s2 == AddLog(s1, PointLog(s, m, "Penalización", "No participación", -puntos_a_restar, booking_id, TRUE))
        s3 == [s2 EXCEPT !.bookings[booking_id].status = "No Participó"]
        s4 == Notify(s3, AdminNotification("No Participación (No Show)", m, puntos_a_restar))
    IN IF ~booking.exists
       THEN Return(s, "registrar_no_participacion", "404")
       ELSE IF booking.status \in {"Retirado", "No Participó"}
       THEN Return(s, "registrar_no_participacion", "procesado")
       ELSE Commit(s,
                   Respond(s4, Response("registrar_no_participacion", "warning",
                                        booking_id, m, puntos_a_restar)),
                   ok, "registrar_no_participacion", booking_id)

obsequiar_cumple(s, member_id, cantidad, ok) ==
    LET member == s.members[member_id]
        s1 == SetPuntos(s, member_id, member.puntos_totales + cantidad)
        s2 == AddLog(s1, PointLog(s, member_id, "Bono Cumpleaños", "Obsequio Especial de Admin", cantidad, 0, FALSE))
        s3 == Notify(s2, AdminNotification("Regalo de Cumpleaños Entregado", member_id, cantidad))
    IN IF ~member.exists
       THEN Return(s, "obsequiar_cumple", "404")
       ELSE IF ~is_birthday(member.birth_date, s.today)
       THEN Return(s, "obsequiar_cumple", "danger")
       ELSE IF ~(CUMPLE_MIN <= cantidad /\ cantidad <= CUMPLE_MAX)
       THEN Return(s, "obsequiar_cumple", "warning")
       ELSE Commit(s, Respond(s3, Response("obsequiar_cumple", "success", member_id, 0, cantidad)),
                   ok, "obsequiar_cumple", member_id)

\* puntos.py admin_ajuste_saldo: the amount is not validated
puntos_admin_ajuste_saldo(s, member_id, action, amount, ok) ==
    LET member == s.members[member_id]
        nuevo == IF action = "eliminar"
                 THEN max(0, member.puntos_totales - amount)
                 ELSE member.puntos_totales + amount
        monto_final == IF action = "eliminar" THEN -amount ELSE amount
        tipo_transaccion ==
            CASE action = "restituir" -> "Restitución Admin"
              [] action = "donar" -> "Donación Admin"
              [] OTHER -> "Penalización Admin"
        s1 == SetPuntos(s, member_id, nuevo)
        s2 == AddLog(s1, PointLog(s, member_id, tipo_transaccion, "reason", monto_final, 0, FALSE))
        s3 == Notify(s2, AdminNotification("Gestión de Saldo", member_id, amount))
    IN IF ~member.exists
       THEN Return(s, "puntos_admin_ajuste_saldo", "404")
       ELSE IF action \notin {"restituir", "donar", "eliminar"}
       THEN Return(s, "puntos_admin_ajuste_saldo", "danger")
       ELSE Commit(s,
                   Respond(s3, Response("puntos_admin_ajuste_saldo", action, member_id, 0, amount)),
                   ok, "puntos_admin_ajuste_saldo", member_id)

\* puntos.py comprar_puntos: the whole amount is credited
puntos_comprar_puntos(s, member_id, cantidad, ok) ==
    LET member == s.members[member_id]
        s1 == SetPuntos(s, member_id, member.puntos_totales + cantidad)
        s2 == AddLog(s1, PointLog(s, member_id, "Compra Puntos", "Adquisición de paquete de puntos", cantidad, 0, FALSE))
        s3 == Notify(s2, AdminNotification("Compra de Puntos", member_id, cantidad))
    IN IF ~(COMPRA_MIN <= cantidad /\ cantidad <= COMPRA_MAX)
       THEN Return(s, "puntos_comprar_puntos", "warning")
       ELSE IF ~member.exists
       THEN Return(s, "puntos_comprar_puntos", "404")
       ELSE Commit(s,
                   Respond(s3, Response("puntos_comprar_puntos", "success", member_id, 0, cantidad)),
                   ok, "puntos_comprar_puntos", member_id)

---------------------------------------------------------------------------
(* perfil.py: the member's profile. *)

\* the gift that debits the sender and never credits the recipient
transferir_regalo_sin_abono(s, sender_id, recipient_id, amount, ok) ==
    LET sender == s.members[sender_id]
        recipient == s.members[recipient_id]
        s1 == SetPuntos(s, sender_id, sender.puntos_totales - amount)
        s2 == AddLog(s1, PointLog(s, sender_id, "Regalo Enviado", "Regalo de cumpleaños para", -amount, 0, FALSE))
        s3 == s2
        s4 == AddLog(s3, PointLog(s, recipient_id, "Regalo Recibido", "Regalo de cumpleaños de", amount, 0, FALSE))
        s5 == Notify(s4, AdminNotification("Intercambio de Puntos", recipient_id, amount))
    IN IF ~sender.exists \/ ~recipient.exists
       THEN Return(s, "transferir_regalo", "404")
       ELSE IF sender_id = recipient_id
       THEN Return(s, "transferir_regalo", "warning")
       ELSE IF amount <= 0
       THEN Return(s, "transferir_regalo", "danger")
       ELSE IF sender.puntos_totales < amount
       THEN Return(s, "transferir_regalo", "insuficiente")
       ELSE Commit(s,
                   Respond(s5, Response("transferir_regalo", "success", sender_id, recipient_id, amount)),
                   ok, "transferir_regalo", sender_id)

\* the gift of more than the sender holds, cut down to what the sender holds
transferir_regalo_hasta_saldo(s, sender_id, recipient_id, amount, ok) ==
    LET sender == s.members[sender_id]
        recipient == s.members[recipient_id]
        s1 == SetPuntos(s, sender_id, sender.puntos_totales - amount)
        s2 == AddLog(s1, PointLog(s, sender_id, "Regalo Enviado", "Regalo de cumpleaños para", -amount, 0, FALSE))
        s3 == SetPuntos(s2, recipient_id, s2.members[recipient_id].puntos_totales + amount)
        s4 == AddLog(s3, PointLog(s, recipient_id, "Regalo Recibido", "Regalo de cumpleaños de", amount, 0, FALSE))
        s5 == Notify(s4, AdminNotification("Intercambio de Puntos", recipient_id, amount))
    IN IF ~sender.exists \/ ~recipient.exists
       THEN Return(s, "transferir_regalo", "404")
       ELSE IF sender_id = recipient_id
       THEN Return(s, "transferir_regalo", "warning")
       ELSE IF amount <= 0
       THEN Return(s, "transferir_regalo", "danger")
       ELSE IF sender.puntos_totales < amount
       THEN transferir_regalo_sin_abono(s, sender_id, recipient_id, max(0, sender.puntos_totales), ok)
       ELSE Commit(s,
                   Respond(s5, Response("transferir_regalo", "success", sender_id, recipient_id, amount)),
                   ok, "transferir_regalo", sender_id)

transferir_regalo(s, sender_id, recipient_id, amount, ok) ==
    LET sender == s.members[sender_id]
        recipient == s.members[recipient_id]
        s1 == SetPuntos(s, sender_id, sender.puntos_totales - amount)
        s2 == AddLog(s1, PointLog(s, sender_id, "Regalo Enviado", "Regalo de cumpleaños para", -amount, 0, FALSE))
        s3 == SetPuntos(s2, recipient_id, s2.members[recipient_id].puntos_totales + amount)
        s4 == AddLog(s3, PointLog(s, recipient_id, "Regalo Recibido", "Regalo de cumpleaños de", amount, 0, FALSE))
        s5 == Notify(s4, AdminNotification("Intercambio de Puntos", recipient_id, amount))
    IN IF ~sender.exists \/ ~recipient.exists
       THEN Return(s, "transferir_regalo", "404")
       ELSE IF sender_id = recipient_id
       THEN Return(s, "transferir_regalo", "warning")
       ELSE IF amount <= 0
       THEN Return(s, "transferir_regalo", "danger")
       ELSE IF sender.puntos_totales < amount
       THEN Return(s, "transferir_regalo", "insuficiente")
       ELSE Commit(s,
                   Respond(s5, Response("transferir_regalo", "success", sender_id, recipient_id, amount)),
                   ok, "transferir_regalo", sender_id)

\* perfil.py admin_ajuste_saldo: monto must be > 0
admin_ajuste_saldo(s, member_id, tipo_accion, monto, ok) ==
    LET member == s.members[member_id]
        nuevo == IF tipo_accion = "eliminar"
                 THEN max(0, member.puntos_totales - monto)
                 ELSE member.puntos_totales + monto
        log == CASE tipo_accion = "restituir" ->
                        PointLog(s, member_id, "Restitución Admin", "Restitución", monto, 0, FALSE)
                 [] tipo_accion = "donar" ->
                        PointLog(s, member_id, "Donación Admin", "Bono/Regalo", monto, 0, FALSE)
                 [] OTHER ->
                        PointLog(s, member_id, "Penalización Admin", "Deducción", -monto, 0, TRUE)
        titulo == CASE tipo_accion = "restituir" -> "Restitución de Saldo"
                    [] tipo_accion = "donar" -> "Donación Admin"
                    [] OTHER -> "Eliminación de Saldo"
        s1 == SetPuntos(s, member_id, nuevo)
        s2 == Notify(s1, AdminNotification(titulo, member_id, monto))
        s3 == AddLog(s2, log)
    IN IF ~member.exists
       THEN Return(s, "admin_ajuste_saldo", "404")
       ELSE IF monto <= 0
       THEN Return(s, "admin_ajuste_saldo", "warning")
       ELSE IF tipo_accion \notin {"restituir", "donar", "eliminar"}
       THEN Return(s, "admin_ajuste_saldo", "danger")
       ELSE Commit(s, Respond(s3, Response("admin_ajuste_saldo", tipo_accion, member_id, 0, monto)),
                   ok, "admin_ajuste_saldo", member_id)

\* the redemption that asks for no minimum balance
canjear_sin_minimo(s, op, tipo, member_id, costo_puntos, ok) ==
    LET member == s.members[member_id]
        s1 == SetPuntos(s, member_id, member.puntos_totales - costo_puntos)
        s2 == AddLog(s1, PointLog(s, member_id, tipo, "Canje", -costo_puntos, 0, FALSE))
        s3 == Notify(s2, AdminNotification(tipo, member_id, costo_puntos))
    IN IF member.puntos_totales < costo_puntos
       THEN Return(s, op, "insuficiente")
       ELSE Commit(s, Respond(s3, Response(op, "success", member_id, 0, costo_puntos)),
                   ok, op, member_id)

\* canjear_aventura and canjear_otro, the same in perfil.py and puntos.py
canjear(s, op, tipo, member_id, costo_puntos, ok) ==
    LET member == s.members[member_id]
        s1 == SetPuntos(s, member_id, member.puntos_totales - costo_puntos)
        s2 == AddLog(s1, PointLog(s, member_id, tipo, "Canje", -costo_puntos, 0, FALSE))
        s3 == Notify(s2, AdminNotification(tipo, member_id, costo_puntos))
    IN IF member.puntos_totales < MIN_CANJE
       THEN Return(s, op, "minimo")
       ELSE IF member.puntos_totales < costo_puntos
       THEN Return(s, op, "insuficiente")
       ELSE Commit(s, Respond(s3, Response(op, "success", member_id, 0, costo_puntos)),
                   ok, op, member_id)

canjear_aventura(s, member_id, event_id, costo_puntos, ok) ==
    IF ~s.members[member_id].exists \/ ~s.events[event_id].exists
    THEN Return(s, "canjear_aventura", "404")
    ELSE canjear(s, "canjear_aventura", "Canje Aventura", member_id, costo_puntos, ok)

canjear_otro(s, member_id, costo_puntos, ok) ==
    IF ~s.members[member_id].exists
    THEN Return(s, "canjear_otro", "404")
    ELSE canjear(s, "canjear_otro", "Canje Otro", member_id, costo_puntos, ok)

\* perfil.py comprar_puntos: 5% is withheld
comprar_puntos(s, member_id, cantidad_bruta, ok) ==
    LET member == s.members[member_id]
        deduccion == (cantidad_bruta * 5) \div 100
        cantidad_neta == cantidad_bruta - deduccion
        s1 == SetPuntos(s, member_id, member.puntos_totales + cantidad_neta)
        s2 == AddLog(s1, PointLog(s, member_id, "Compra Puntos", "Compra", cantidad_neta, 0, FALSE))
        s3 == Notify(s2, AdminNotification("Ingreso por Compra de Puntos", member_id, cantidad_bruta))
    IN IF ~(COMPRA_MIN <= cantidad_bruta /\ cantidad_bruta <= COMPRA_MAX)
       THEN Return(s, "comprar_puntos", "warning")
       ELSE IF ~member.exists
       THEN Return(s, "comprar_puntos", "404")
       ELSE Commit(s, Respond(s3, Response("comprar_puntos", "success", member_id, 0, cantidad_neta)),
                   ok, "comprar_puntos", member_id)

---------------------------------------------------------------------------
(* app.py: the page-load birthday grant and the older api_reserve. *)

\* the grant that marks the year and credits the balance but books no entry
RECURSIVE regalar_desde_sin_asiento(_, _)
regalar_desde_sin_asiento(s, m) ==
    IF m > MaxMembers THEN s
    ELSE LET member == s.members[m]
             s1 == [s EXCEPT !.members[m].puntos_totales = @ + monto_bono,
                             !.members[m].ultimo_regalo_bday = s.today.year]
             s3 == Notify(s1, AdminNotification("Cumpleaños Automático", m, monto_bono))
         IN IF /\ member.exists
               /\ is_birthday(member.birth_date, s.today)
               /\ member.ultimo_regalo_bday # s.today.year
            THEN regalar_desde_sin_asiento(s3, m + 1)
            ELSE regalar_desde_sin_asiento(s, m + 1)

\* the loop over birthdays_today, in id order, from member m on
RECURSIVE regalar_desde(_, _)
regalar_desde(s, m) ==
    IF m > MaxMembers THEN s
    ELSE LET member == s.members[m]
             s1 == [s EXCEPT !.members[m].puntos_totales = @ + monto_bono,
                             !.members[m].ultimo_regalo_bday = s.today.year]
             s2 == AddLog(s1, PointLog(s, m, "Bono Cumpleaños", "Regalo de La Tribu: Cumpleaños", monto_bono, 0, FALSE))
             s3 == Notify(s2, AdminNotification("Cumpleaños Automático", m, monto_bono))
         IN IF /\ member.exists
               /\ is_birthday(member.birth_date, s.today)
               /\ member.ultimo_regalo_bday # s.today.year
            THEN regalar_desde(s3, m + 1)
            ELSE regalar_desde(s, m + 1)

\* the page load whose grants book no entry
inject_global_vars_sin_asiento(s, ok) ==
    LET t == regalar_desde_sin_asiento(s, 1)
        commit_needed == t.members # s.members
    IN IF commit_needed
       THEN Commit(s, Respond(t, Response("inject_global_vars", "regalo", 0, 0, monto_bono)),
                   ok, "inject_global_vars", 0)
       ELSE Return(s, "inject_global_vars", "nada")

inject_global_vars(s, ok) ==
    LET t == regalar_desde(s, 1)
        commit_needed == t.logs # s.logs
    IN IF commit_needed
       THEN Commit(s, Respond(t, Response("inject_global_vars", "regalo", 0, 0, monto_bono)),
                   ok, "inject_global_vars", 0)
       ELSE Return(s, "inject_global_vars", "nada")

\* the annual check without the year it last granted in
app_bono_anual_sin_ciclo(s, m) ==
    LET member == s.members[m]
        s1 == [s EXCEPT !.members[m].puntos_totales = @ + 500,
                        !.members[m].ultimo_regalo_bday = s.today.year]
        s2 == AddLog(s1, PointLog(s, m, "Bono Cumpleaños", "Bono anual por natalicio", 500, 0, FALSE))
        s3 == Notify(s2, AdminNotification("Cumpleaños Automático", m, 500))
    IN IF is_birthday(member.birth_date, s.today) THEN s3 ELSE s

\* the annual check that closes app.py's api_reserve
app_bono_anual(s, m) ==
    LET member == s.members[m]
        s1 == [s EXCEPT !.members[m].puntos_totales = @ + 500,
                        !.members[m].ultimo_regalo_bday = s.today.year]
        s2 == AddLog(s1, PointLog(s, m, "Bono Cumpleaños", "Bono anual por natalicio", 500, 0, FALSE))
        s3 == Notify(s2, AdminNotification("Cumpleaños Automático", m, 500))
    IN IF /\ is_birthday(member.birth_date, s.today)
          /\ member.ultimo_regalo_bday # s.today.year
       THEN s3 ELSE s

\* new_booking of app.py's api_reserve: the entry of the enrollment is not tied to it
app_new_booking(t, m, event_id) ==
    LET b == NextId(t.bookings, BookingIds)
    IN [t EXCEPT !.bookings[b] = Booking(event_id, m, val_pts(t.events[event_id]), "Activo")]

app_api_reserve_nuevo(s, event_id, telefono, birth) ==
    LET event_points == val_pts(s.events[event_id])
        new_id == NextId(s.members, MemberIds)
        bono == is_birthday(birth, s.today)
        reg_year_bono == IF bono THEN s.today.year ELSE 0
        pts_ganados == event_points + WELCOME_BONUS + (IF bono THEN 500 ELSE 0)
        n1 == [s EXCEPT !.members[new_id] =
                    Member(telefono, birth, pts_ganados, reg_year_bono)]
        n2 == AddLog(n1, PointLog(s, new_id, "Bono Bienvenida", "Regalo único por unirse a La Tribu", WELCOME_BONUS, 0, FALSE))
        n3 == AddLog(n2, PointLog(s, new_id, "Inscripción", "Registro inicial en", event_points, 0, FALSE))
        n4 == Notify(n3, AdminNotification("Nuevo Aventurero", new_id, 0))
        n5 == IF reg_year_bono > 0
              THEN AddLog(n4, PointLog(s, new_id, "Bono Cumpleaños", "¡Bono sorpresa por cumpleaños!", 500, 0, FALSE))
              ELSE n4
        n6 == app_new_booking(n5, new_id, event_id)
        n7 == app_bono_anual(n6, new_id)
    IN Respond(n7, Response("app_api_reserve", "nuevo", new_id, event_id, pts_ganados))

app_api_reserve_pin(s, event_id, m) ==
    LET pts == val_pts(s.events[event_id])
        member == s.members[m]
        eb == existing_booking(s, m, event_id)
        r1 == [s EXCEPT !.bookings[eb].status = "Activo"]
        r2 == SetPuntos(r1, m, member.puntos_totales + pts)
        r3 == AddLog(r2, PointLog(s, m, "Reactivación", "Reincorporación a", pts, eb, FALSE))
        r4 == Notify(r3, AdminNotification("Retorno de Aventurero", m, pts))
        e1 == SetPuntos(s, m, member.puntos_totales + pts)
        e2 == AddLog(e1, PointLog(s, m, "Inscripción", "Inscripción", pts, 0, FALSE))
        e3 == Notify(e2, AdminNotification("Nueva Inscripción", m, pts))
        e4 == app_new_booking(e3, m, event_id)
        e5 == app_bono_anual(e4, m)
    IN IF eb # 0
       THEN IF s.bookings[eb].status # "Activo"
            THEN Respond(r4, Response("app_api_reserve", "reactivado", m, event_id, pts))
            ELSE Return(s, "app_api_reserve", "duplicado")
       ELSE Respond(e5, Response("app_api_reserve", "inscrito", m, event_id,
                                 e5.members[m].puntos_totales - member.puntos_totales))

app_api_reserve(s, event_id, pin, telefono, birth, ok) ==
    IF ~s.events[event_id].exists
    THEN Return(s, "app_api_reserve", "error")
    ELSE IF pin # 0 /\ s.members[pin].exists
    THEN Commit(s, app_api_reserve_pin(s, event_id, pin), ok, "app_api_reserve", pin)
    ELSE Commit(s, app_api_reserve_nuevo(s, event_id, telefono, birth), ok, "app_api_reserve", 0)

\* db.session.delete(ev): the bookings go with it (cascade="all, delete-orphan")
delete_ev(s, event_id) ==
    [s EXCEPT !.events[event_id] = NoEvent,
              !.bookings = [b \in BookingIds |->
                                IF @[b].exists /\ @[b].event_id = event_id
                                THEN NoBooking ELSE @[b]]]

app_delete_event(s, event_id, ok) ==
    LET s1 == delete_ev(s, event_id)
        s2 == Notify(s1, AdminNotification("Aventura Eliminada", 0, 0))
    IN IF ~s.events[event_id].exists
       THEN Return(s, "app_delete_event", "404")
       ELSE Commit(s, Respond(s2, Response("app_delete_event", "success", event_id, 0, 0)),
                   ok, "app_delete_event", event_id)

---------------------------------------------------------------------------
(* logistica.py: the life of an event. *)

add_event(s, points_reward, ok) ==
    LET e == NextId(s.events, EventIds)
        s1 == [s EXCEPT !.events[e] = Event(points_reward)]
        s2 == Notify(s1, AdminNotification("Nueva Aventura Creada", 0, 0))
    IN Commit(s, Respond(s2, Response("add_event", "success", e, 0, points_reward)),
              ok, "add_event", 0)

edit_event(s, event_id, points_reward, ok) ==
    LET s1 == [s EXCEPT !.events[event_id].points_reward = points_reward]
        s2 == Notify(s1, AdminNotification("Aventura Modificada", 0, 0))
    IN IF ~s.events[event_id].exists
       THEN Return(s, "edit_event", "404")
       ELSE Commit(s, Respond(s2, Response("edit_event", "success", event_id, 0, points_reward)),
                   ok, "edit_event", event_id)

\* the bookings of an event
bookings_of(s, event_id) ==
    {b \in BookingIds : s.bookings[b].exists /\ s.bookings[b].event_id = event_id}

\* the detaching that lets go of the credits only
detach_solo_abonos(s, event_id) ==
    [s EXCEPT !.logs =
        [i \in 1..Len(@) |->
            IF @[i].booking_id \in bookings_of(s, event_id) /\ @[i].amount > 0
            THEN [@[i] EXCEPT !.booking_id = 0,
                              !.description = @ \o " (Evento Concluido)"]
            ELSE @[i]]]

\* l.booking_id = None and the mark on the description, for every entry of
\* the event's bookings (no description of the model holds "Histórico")
detach(s, event_id) ==
    [s EXCEPT !.logs =
        [i \in 1..Len(@) |->
            IF @[i].booking_id \in bookings_of(s, event_id)
            THEN [@[i] EXCEPT !.booking_id = 0,
                              !.description = @ \o " (Evento Concluido)"]
            ELSE @[i]]]

\* fail_at: 0 no failure, 1 the first commit fails, 2 the second one does
conclude_event(s, event_id, fail_at) ==
    LET s1 == detach(s, event_id)
        s2 == delete_ev(s1, event_id)
        s3 == Notify(s2, AdminNotification("Caminata Concluida", 0, 0))
    IN IF ~s.events[event_id].exists
       THEN Return(s, "conclude_event", "404")
       ELSE IF fail_at = 1
       THEN Return(s, "conclude_event", "error")
       ELSE IF fail_at = 2
       THEN Respond(s1, Response("conclude_event", "error", event_id, 0, 0))
       ELSE Respond(s3, Response("conclude_event", "success", event_id, 0, 0))

\* the loop of the radical delete over the ledger, from entry i on:
\* every positive entry of the event's bookings is taken back and deleted
RECURSIVE revocar_desde(_, _, _, _)
revocar_desde(s, tied, i, acc) ==
    IF i > Len(s.logs) THEN [s |-> s, total |-> acc]
    ELSE LET l == s.logs[i]
             m == s.bookings[l.booking_id].member_id
             s1 == SetPuntos(s, m, max(0, s.members[m].puntos_totales - l.amount))
             s2 == [s1 EXCEPT !.logs = SubSeq(@, 1, i - 1) \o SubSeq(@, i + 1, Len(@))]
         IN IF l.booking_id \in tied /\ l.amount > 0
            THEN revocar_desde(s2, tied, i, acc + l.amount)
            ELSE revocar_desde(s, tied, i + 1, acc)

delete_event(s, event_id, ok) ==
    LET r == revocar_desde(s, bookings_of(s, event_id), 1, 0)
        s1 == delete_ev(r.s, event_id)
        s2 == Notify(s1, AdminNotification("Aventura Eliminada (Radical)", 0, r.total))
    IN IF ~s.events[event_id].exists
       THEN Return(s, "delete_event", "404")
       ELSE Commit(s, Respond(s2, Response("delete_event", "success", event_id, 0, r.total)),
                   ok, "delete_event", event_id)

---------------------------------------------------------------------------
(* The state machine. *)

\* the threads of the server
Requests == 1..MaxRequests

\* a thread that serves no request
Idle == [op |-> "idle"]

St == [today |-> today, members |-> members, events |-> events,
       bookings |-> bookings, logs |-> logs,
       notifications |-> notifications, resp |-> resp]

StoreAt(t, at) ==
    /\ today' = t.today
    /\ members' = t.members
    /\ events' = t.events
    /\ bookings' = t.bookings
    /\ logs' = t.logs
    /\ notifications' = t.notifications
    /\ resp' = t.resp
    /\ sessions' = sessions
    /\ created_at' = at

Store(t) == StoreAt(t, created_at)

Init ==
    /\ today = [year |-> 1, day |-> 1]
    /\ members = [m \in MemberIds |-> NoMember]
    /\ events \in [EventIds -> {Event(p) : p \in EventPoints}]
    /\ bookings = [b \in BookingIds |-> NoBooking]
    /\ logs = <<>>
    /\ notifications = <<>>
    /\ resp = Response("", "", 0, 0, 0)
    /\ sessions = [r \in Requests |-> Idle]
    /\ created_at = <<>>

\* the clock moves on to the next day, and past the last day to the next year
Tick ==
    /\ today' = IF today.day < NDays
                THEN [today EXCEPT !.day = @ + 1]
                ELSE [year |-> today.year + 1, day |-> 1]
    /\ today'.year <= MaxYears
    /\ UNCHANGED <<members, events, bookings, logs, notifications, resp, sessions, created_at>>

\* the requests still to be handled: every committed one leaves a notification
Budget(n) == Len(notifications) < n

\* a new row needs an id within the model's tables
RoomForBooking == NextId(bookings, BookingIds) <= MaxBookings

RoomForMember == NextId(members, MemberIds) <= MaxMembers

\* /api/reserve without a PIN: a new member
ApiReserveNuevo ==
    \E e \in EventIds, tel \in Phones, birth \in BirthDates :
        /\ RoomForBooking /\ RoomForMember /\ events[e].exists
        /\ Store(api_reserve(St, e, 0, tel, birth, TRUE))

\* /api/reserve with the PIN of a member
ApiReservePin ==
    \E e \in EventIds, pin \in MemberIds :
        /\ RoomForBooking
        /\ members[pin].exists /\ events[e].exists
        /\ Store(api_reserve(St, e, pin, 0, 0, TRUE))

AppApiReserveNuevo ==
    \E e \in EventIds, tel \in Phones, birth \in BirthDates :
        /\ RoomForBooking /\ RoomForMember /\ events[e].exists
        /\ Store(app_api_reserve(St, e, 0, tel, birth, TRUE))

AppApiReservePin ==
    \E e \in EventIds, pin \in MemberIds :
        /\ RoomForBooking
        /\ members[pin].exists /\ events[e].exists
        /\ Store(app_api_reserve(St, e, pin, 0, 0, TRUE))

\* The requests below name rows that exist: a request for a missing row ends
\* in a 404 and leaves everything as it was.

CancelBooking ==
    \E b \in BookingIds :
        bookings[b].exists /\ Store(cancel_booking(St, b, TRUE))

RegistrarNoParticipacion ==
    \E b \in BookingIds :
        bookings[b].exists /\ Store(registrar_no_participacion(St, b, TRUE))

AdjustPoints ==
    \E m \in MemberIds, a \in AdjustAmounts :
        members[m].exists /\ Store(adjust_points(St, m, a, TRUE))

PuntosAdminAjusteSaldo ==
    \E m \in MemberIds, act \in SaldoActions, a \in SaldoAmounts :
        members[m].exists /\ Store(puntos_admin_ajuste_saldo(St, m, act, a, TRUE))

AdminAjusteSaldo ==
    \E m \in MemberIds, act \in SaldoActions, a \in SaldoAmounts :
        members[m].exists /\ Store(admin_ajuste_saldo(St, m, act, a, TRUE))

IntegrityCheck ==
    \E m \in MemberIds : members[m].exists /\ Store(integrity_check(St, m))

DeleteMember ==
    \E m \in MemberIds : members[m].exists /\ Store(delete_member(St, m, TRUE))

TransferirRegalo ==
    \E a \in MemberIds, b \in MemberIds, amt \in GiftAmounts :
        /\ members[a].exists /\ members[b].exists
        /\ Store(transferir_regalo(St, a, b, amt, TRUE))

CanjearAventura ==
    \E m \in MemberIds, e \in EventIds, c \in CanjeCostos :
        /\ members[m].exists /\ events[e].exists
        /\ Store(canjear_aventura(St, m, e, c, TRUE))

CanjearOtro ==
    \E m \in MemberIds, c \in CanjeCostos :
        members[m].exists /\ Store(canjear_otro(St, m, c, TRUE))

ComprarPuntos ==
    \E m \in MemberIds, c \in CompraCantidades :
        members[m].exists /\ Store(comprar_puntos(St, m, c, TRUE))

PuntosComprarPuntos ==
    \E m \in MemberIds, c \in CompraCantidades :
        members[m].exists /\ Store(puntos_comprar_puntos(St, m, c, TRUE))

ObsequiarCumple ==
    \E m \in MemberIds, c \in CumpleAmounts :
        members[m].exists /\ Store(obsequiar_cumple(St, m, c, TRUE))

InjectGlobalVars == Store(inject_global_vars(St, TRUE))

AddEvent ==
    \E p \in EventPoints :
        /\ NextId(events, EventIds) <= MaxEvents
        /\ Store(add_event(St, p, TRUE))

EditEvent ==
    \E e \in EventIds, p \in EventPoints :
        events[e].exists /\ Store(edit_event(St, e, p, TRUE))

ConcludeEvent ==
    \E e \in EventIds : events[e].exists /\ Store(conclude_event(St, e, 0))

DeleteEvent ==
    \E e \in EventIds : events[e].exists /\ Store(delete_event(St, e, TRUE))

AppDeleteEvent ==
    \E e \in EventIds : events[e].exists /\ Store(app_delete_event(St, e, TRUE))

Next ==
    \/ Tick
    \/ Budget(MaxOps) /\ ApiReserveNuevo
    \/ Budget(MaxOps) /\ ApiReservePin
    \/ Budget(MaxOps) /\ AppApiReserveNuevo
    \/ Budget(MaxOps) /\ AppApiReservePin
    \/ Budget(MaxOps) /\ CancelBooking
    \/ Budget(MaxOps) /\ RegistrarNoParticipacion
    \/ Budget(MaxOps) /\ AdjustPoints
    \/ Budget(MaxOps) /\ PuntosAdminAjusteSaldo
    \/ Budget(MaxOps) /\ AdminAjusteSaldo
    \/ Budget(MaxOps) /\ IntegrityCheck
    \/ Budget(MaxOps) /\ DeleteMember
    \/ Budget(MaxOps) /\ TransferirRegalo
    \/ Budget(MaxOps) /\ CanjearAventura
    \/ Budget(MaxOps) /\ CanjearOtro
    \/ Budget(MaxOps) /\ ComprarPuntos
    \/ Budget(MaxOps) /\ PuntosComprarPuntos
    \/ Budget(MaxOps) /\ ObsequiarCumple
    \/ Budget(MaxOps) /\ InjectGlobalVars
    \/ Budget(MaxOps) /\ AddEvent
    \/ Budget(MaxOps) /\ EditEvent
    \/ Budget(MaxOps) /\ ConcludeEvent
    \/ Budget(MaxOps) /\ DeleteEvent
    \/ Budget(MaxOps) /\ AppDeleteEvent

Spec == Init /\ [][Next]_vars

\* The requests that debit and credit a member: longer runs of fewer requests.
NextLedger ==
    \/ Budget(MaxOpsLedger) /\ ApiReserveNuevo
    \/ Budget(MaxOpsLedger) /\ CancelBooking
    \/ Budget(MaxOpsLedger) /\ RegistrarNoParticipacion
    \/ Budget(MaxOpsLedger) /\ AdjustPoints
    \/ Budget(MaxOpsLedger) /\ AdminAjusteSaldo
    \/ Budget(MaxOpsLedger) /\ TransferirRegalo
    \/ Budget(MaxOpsLedger) /\ IntegrityCheck

SpecLedger == Init /\ [][NextLedger]_vars

\* The requests that enrol, withdraw and grant the birthday bonus, over the
\* days, and the administrator's birthday gift and manual adjustment.
NextBonus ==
    \/ Tick
    \/ Budget(MaxOpsBonus) /\ ApiReserveNuevo
    \/ Budget(MaxOpsBonus) /\ ApiReservePin
    \/ Budget(MaxOpsBonus) /\ AppApiReserveNuevo
    \/ Budget(MaxOpsBonus) /\ AppApiReservePin
    \/ Budget(MaxOpsBonus) /\ CancelBooking
    \/ Budget(MaxOpsBonus) /\ InjectGlobalVars
    \/ Budget(MaxOpsBonus) /\ ObsequiarCumple
    \/ Budget(MaxOpsBonus) /\ AdjustPoints
    \/ Budget(MaxOpsBonus) /\ DeleteMember
    \/ Budget(MaxOpsBonus) /\ AppDeleteEvent
    \/ Budget(MaxOpsBonus) /\ AddEvent

SpecBonus == Init /\ [][NextBonus]_vars

\* The life of a booking: enrolled, withdrawn or marked absent, enrolled
\* again, while the administrator edits what the activity is worth.
NextBooking ==
    \/ Budget(MaxOpsBooking) /\ ApiReserveNuevo
    \/ Budget(MaxOpsBooking) /\ ApiReservePin
    \/ Budget(MaxOpsBooking) /\ AppApiReservePin
    \/ Budget(MaxOpsBooking) /\ CancelBooking
    \/ Budget(MaxOpsBooking) /\ RegistrarNoParticipacion
    \/ Budget(MaxOpsBooking) /\ EditEvent

SpecBooking == Init /\ [][NextBooking]_vars

\* The points bought and redeemed, from the profile and from the admin panel.
NextCanje ==
    \/ Budget(MaxOpsCanje) /\ ApiReserveNuevo
    \/ Budget(MaxOpsCanje) /\ ComprarPuntos
    \/ Budget(MaxOpsCanje) /\ PuntosComprarPuntos
    \/ Budget(MaxOpsCanje) /\ CanjearAventura
    \/ Budget(MaxOpsCanje) /\ CanjearOtro

SpecCanje == Init /\ [][NextCanje]_vars

\* The requests whose commit fails: the handler has run up to
\* db.session.commit(), which raises, and the except branch rolls back.

ApiReserveFalla ==
    \E e \in EventIds, pin \in MemberIds \cup {0}, tel \in Phones, birth \in BirthDates :
        /\ RoomForBooking /\ RoomForMember /\ events[e].exists
        /\ pin # 0 => members[pin].exists
        /\ Store(api_reserve(St, e, pin, tel, birth, FALSE))

AppApiReserveFalla ==
    \E e \in EventIds, pin \in MemberIds \cup {0}, tel \in Phones, birth \in BirthDates :
        /\ RoomForBooking /\ RoomForMember /\ events[e].exists
        /\ pin # 0 => members[pin].exists
        /\ Store(app_api_reserve(St, e, pin, tel, birth, FALSE))

CancelBookingFalla ==
    \E b \in BookingIds :
        bookings[b].exists /\ Store(cancel_booking(St, b, FALSE))

RegistrarNoParticipacionFalla ==
    \E b \in BookingIds :
        bookings[b].exists /\ Store(registrar_no_participacion(St, b, FALSE))

AdjustPointsFalla ==
    \E m \in MemberIds, a \in AdjustAmounts :
        members[m].exists /\ Store(adjust_points(St, m, a, FALSE))

AjusteSaldoFalla ==
    \E m \in MemberIds, act \in SaldoActions, a \in SaldoAmounts :
        /\ members[m].exists
        /\ \/ Store(admin_ajuste_saldo(St, m, act, a, FALSE))
           \/ Store(puntos_admin_ajuste_saldo(St, m, act, a, FALSE))

TransferirRegaloFalla ==
    \E a \in MemberIds, b \in MemberIds, amt \in GiftAmounts :
        /\ members[a].exists /\ members[b].exists
        /\ Store(transferir_regalo(St, a, b, amt, FALSE))

CanjearFalla ==
    \E m \in MemberIds, e \in EventIds, c \in CanjeCostos :
        /\ members[m].exists /\ events[e].exists
        /\ \/ Store(canjear_aventura(St, m, e, c, FALSE))
           \/ Store(canjear_otro(St, m, c, FALSE))

ComprarPuntosFalla ==
    \E m \in MemberIds, c \in CompraCantidades :
        /\ members[m].exists
        /\ \/ Store(comprar_puntos(St, m, c, FALSE))
           \/ Store(puntos_comprar_puntos(St, m, c, FALSE))

ObsequiarCumpleFalla ==
    \E m \in MemberIds, c \in CumpleAmounts :
        members[m].exists /\ Store(obsequiar_cumple(St, m, c, FALSE))

InjectGlobalVarsFalla == Store(inject_global_vars(St, FALSE))

\* The requests that write to the ledger, over the days; at any time the
\* commit of one of them may fail.
NextFallo ==
    \/ Tick
    \/ Budget(MaxOpsFallo) /\ ApiReserveNuevo
    \/ Budget(MaxOpsFallo) /\ CancelBooking
    \/ Budget(MaxOpsFallo) /\ ComprarPuntos
    \/ ApiReserveFalla
    \/ AppApiReserveFalla
    \/ CancelBookingFalla
    \/ RegistrarNoParticipacionFalla
    \/ AdjustPointsFalla
    \/ AjusteSaldoFalla
    \/ TransferirRegaloFalla
    \/ CanjearFalla
    \/ ComprarPuntosFalla
    \/ ObsequiarCumpleFalla
    \/ InjectGlobalVarsFalla

SpecFallo == Init /\ [][NextFallo]_vars

---------------------------------------------------------------------------
(* Requests served at the same time.                                       *)
(*                                                                         *)
(* A session reads with SELECTs that hold no lock between them (pysqlite   *)
(* opens the transaction at the first INSERT or UPDATE), keeps what it     *)
(* read, and at db.session.commit() flushes an UPDATE of the columns the   *)
(* handler changed and an INSERT of the rows it added, in one SQLite       *)
(* transaction.                                                            *)

\* a request: the handler and its arguments
Req(op, m, m2, e, a) == [op |-> op, m |-> m, m2 |-> m2, e |-> e, a |-> a]

\* the handler of a request, on the database as the session has read it
Run(req, s) ==
    CASE req.op = "inject_global_vars" -> inject_global_vars(s, TRUE)
      [] req.op = "api_reserve" -> api_reserve(s, req.e, req.m, 0, 0, TRUE)
      [] req.op = "app_api_reserve" -> app_api_reserve(s, req.e, req.m, 0, 0, TRUE)
      [] req.op = "adjust_points" -> adjust_points(s, req.m, req.a, TRUE)
      [] req.op = "comprar_puntos" -> comprar_puntos(s, req.m, req.a, TRUE)
      [] req.op = "transferir_regalo" -> transferir_regalo(s, req.m, req.m2, req.a, TRUE)
      [] req.op = "integrity_check" -> integrity_check(s, req.m)
      [] req.op = "cancel_booking" -> cancel_booking(s, req.e, TRUE)

\* the handlers that read a second time, after the row they start from:
\* api_reserve the member's booking of the event, transferir_regalo the
\* recipient, integrity_check the sum of the ledger
LeeDosVeces ==
    {"api_reserve", "app_api_reserve", "transferir_regalo", "integrity_check"}

\* what a session holds after the first SELECT: the database of that moment
Leido(s) == [s EXCEPT !.resp = Response("", "", 0, 0, 0), !.notifications = <<>>]

\* the second SELECT, on the database of a later moment
SegundaLectura(req, snap, now) ==
    CASE req.op \in {"api_reserve", "app_api_reserve"} ->
            [snap EXCEPT !.bookings = now.bookings]
      [] req.op = "transferir_regalo" ->
            IF req.m2 = req.m THEN snap
            ELSE [snap EXCEPT !.members[req.m2] = now.members[req.m2]]
      [] req.op = "integrity_check" ->
            [snap EXCEPT !.logs = now.logs]
      [] OTHER -> snap

\* UPDATE ... SET of every column of the row, as the session holds it
Columnas_todas(leida, escrita, actual) == escrita

\* UPDATE ... SET of the columns whose value the handler changed
Columnas(leida, escrita, actual) ==
    [f \in DOMAIN actual |-> IF escrita[f] # leida[f] THEN escrita[f] ELSE actual[f]]

\* the flush and commit of a session that read snap and whose handler left
\* t, on the database as it is now: the changed columns are updated, the new
\* rows inserted, the new booking under the id SQLite gives it now
Flush(snap, t, now) ==
    LET nuevas == {b \in BookingIds : t.bookings[b].exists /\ ~snap.bookings[b].exists}
        idn == NextId(now.bookings, BookingIds)
        remap(b) == IF b \in nuevas THEN idn ELSE b
        n0 == Len(snap.logs)
        entradas == [i \in 1..(Len(t.logs) - n0) |->
                        [t.logs[n0 + i] EXCEPT !.booking_id = remap(@)]]
        avisos == SubSeq(t.notifications, Len(snap.notifications) + 1, Len(t.notifications))
    IN [today |-> now.today,
        events |-> now.events,
        members |-> [m \in MemberIds |->
                        Columnas(snap.members[m], t.members[m], now.members[m])],
        bookings |-> [b \in BookingIds |->
                        IF nuevas # {} /\ b = idn
                        THEN t.bookings[CHOOSE x \in nuevas : TRUE]
                        ELSE IF snap.bookings[b].exists
                        THEN Columnas(snap.bookings[b], t.bookings[b], now.bookings[b])
                        ELSE now.bookings[b]],
        logs |-> now.logs \o entradas,
        notifications |-> now.notifications \o avisos,
        resp |-> t.resp]

\* the session of a request whose handler has run its first SELECT on the
\* database s; antes keeps the database as the request found it
EnCurso(req, s) ==
    [op |-> "busy", req |-> req, snap |-> Leido(s), antes |-> Leido(s),
     pc |-> IF req.op \in LeeDosVeces THEN "select" ELSE "commit"]

\* a thread takes a request and its handler runs its first SELECT
Recibir(r, req) ==
    /\ sessions[r] = Idle
    /\ sessions' = [sessions EXCEPT ![r] = EnCurso(req, St)]
    /\ UNCHANGED <<today, members, events, bookings, logs, notifications, resp, created_at>>

\* the handler runs its second SELECT
Releer(r) ==
    /\ sessions[r] # Idle /\ sessions[r].pc = "select"
    /\ sessions' = [sessions EXCEPT
                        ![r].snap = SegundaLectura(sessions[r].req, @, Leido(St)),
                        ![r].pc = "commit"]
    /\ UNCHANGED <<today, members, events, bookings, logs, notifications, resp, created_at>>

\* the handler runs to its db.session.commit() and answers
Confirmar(r) ==
    /\ sessions[r] # Idle /\ sessions[r].pc = "commit"
    /\ LET snap == sessions[r].snap
           t == Flush(snap, Run(sessions[r].req, snap), St)
       IN /\ today' = t.today
          /\ members' = t.members
          /\ events' = t.events
          /\ bookings' = t.bookings
          /\ logs' = t.logs
          /\ notifications' = t.notifications
          /\ resp' = t.resp
    /\ sessions' = [sessions EXCEPT ![r] = Idle]
    /\ created_at' = created_at

\* no request is being served
Quiescent == \A r \in Requests : sessions[r] = Idle

\* the requests still to be taken, those being served counted as handled
BudgetEnCurso(n) ==
    Len(notifications) + Cardinality({r \in Requests : sessions[r] # Idle}) < n

\* The birthday check run by requests served at the same time: the page
\* load and the enrollment with a PIN, on members registered before.
ReqsCumple ==
    {Req("inject_global_vars", 0, 0, 0, 0)}
        \cup {Req(op, m, 0, e, 0) : op \in {"api_reserve", "app_api_reserve"},
                                    m \in MemberIds, e \in EventIds}

RecibirCumple ==
    \E r \in Requests, req \in ReqsCumple :
        /\ BudgetEnCurso(MaxOpsCumple)
        /\ req.m # 0 => members[req.m].exists
        /\ req.e # 0 => (events[req.e].exists /\ NextId(bookings, BookingIds) < MaxBookings)
        /\ Recibir(r, req)

ReleerAlguna == \E r \in Requests : Releer(r)

ConfirmarAlguna == \E r \in Requests : Confirmar(r)

NextCumple ==
    \/ Quiescent /\ Tick
    \/ Quiescent /\ Budget(MaxOpsCumple) /\ ApiReserveNuevo
    \/ RecibirCumple
    \/ ReleerAlguna
    \/ ConfirmarAlguna

SpecCumple == Init /\ [][NextCumple]_vars

\* Operations on the balance of one member served at the same time: the
\* manual adjustment, the purchase and the birthday check of the page load.
ReqsSaldo ==
    {Req("inject_global_vars", 0, 0, 0, 0)}
        \cup {Req("adjust_points", m, 0, 0, a) : m \in MemberIds, a \in AdjustAmounts}
        \cup {Req("comprar_puntos", m, 0, 0, c) : m \in MemberIds, c \in CompraCantidades}

RecibirSaldo ==
    \E r \in Requests, req \in ReqsSaldo :
        /\ BudgetEnCurso(MaxOpsSaldo)
        /\ req.m # 0 => members[req.m].exists
        /\ Recibir(r, req)

NextSaldo ==
    \/ Quiescent /\ Tick
    \/ Quiescent /\ Budget(MaxOpsSaldo) /\ ApiReserveNuevo
    \/ RecibirSaldo
    \/ ConfirmarAlguna

SpecSaldo == Init /\ [][NextSaldo]_vars

\* Gifts between members served at the same time.
ReqsRegalo ==
    {q \in {Req("transferir_regalo", a, b, 0, amt) :
                a \in MemberIds, b \in MemberIds, amt \in GiftAmounts} :
        q.m # q.m2 /\ q.a > 0}

RecibirRegalo ==
    \E r \in Requests, req \in ReqsRegalo :
        /\ BudgetEnCurso(MaxOpsRegalo)
        /\ members[req.m].exists /\ members[req.m2].exists
        /\ Recibir(r, req)

NextRegalo ==
    \/ Quiescent /\ Budget(MaxOpsRegalo) /\ ApiReserveNuevo
    \/ RecibirRegalo
    \/ ReleerAlguna
    \/ ConfirmarAlguna

SpecRegalo == Init /\ [][NextRegalo]_vars

\* The audit of a member and one operation on the ledger of the same member,
\* arriving together: a manual adjustment or the withdrawal of a booking.
ReqsAudit(m) ==
    {Req("adjust_points", m, 0, 0, a) : a \in AuditAmounts}
        \cup {Req("cancel_booking", m, 0, b, 0) :
                b \in {x \in BookingIds : bookings[x].exists /\ bookings[x].member_id = m}}

\* a manual adjustment served alone, before the audit
AjustePrevio ==
    \E m \in MemberIds, a \in AuditAmounts :
        members[m].exists /\ Store(adjust_points(St, m, a, TRUE))

RecibirPar ==
    \E m \in MemberIds, r1 \in Requests, r2 \in Requests :
        \E req \in ReqsAudit(m) :
            /\ Quiescent /\ r1 # r2
            /\ Len(notifications) + 2 <= MaxOpsAudit
            /\ members[m].exists
            /\ sessions' = [sessions EXCEPT
                                ![r1] = EnCurso(Req("integrity_check", m, 0, 0, 0), St),
                                ![r2] = EnCurso(req, St)]
            /\ UNCHANGED <<today, members, events, bookings, logs, notifications, resp, created_at>>

NextAudit ==
    \/ Quiescent /\ Budget(MaxOpsAudit) /\ ApiReserveNuevo
    \/ Quiescent /\ Budget(MaxOpsAudit) /\ AjustePrevio
    \/ RecibirPar
    \/ ReleerAlguna
    \/ ConfirmarAlguna

SpecAudit == Init /\ [][NextAudit]_vars

\* The creation timestamps of the ledger entries of a new member.
\*
\* the readings of the clock one request takes, one per row, each no earlier
\* than the one before
Lecturas(n) ==
    {l \in [1..n -> 0..MaxReloj] : \A i \in 1..(n - 1) : l[i] <= l[i + 1]}

\* the rows of point_log a handler that took s to t inserted
Nuevas(s, t) == SubSeq(t.logs, Len(s.logs) + 1, Len(t.logs))

\* created_at = db.Column(db.DateTime, default=lambda: datetime.now(...)):
\* each row is given the reading of the clock at its INSERT
column_default(rows, l) ==
    [i \in DOMAIN rows |->
        [transaction_type |-> rows[i].transaction_type, at |-> l[i]]]

\* app.py: created_at=datetime.utcnow() + timedelta(seconds=k), k = 0 for the
\* welcome bonus, 1 for the enrollment and 2 for the birthday bonus
app_created_at(rows, l) ==
    [i \in DOMAIN rows |->
        [transaction_type |-> rows[i].transaction_type,
         at |-> CASE rows[i].transaction_type = "Bono Bienvenida" -> l[i]
                  [] rows[i].transaction_type = "Inscripción" -> l[i] + Segundo
                  [] rows[i].transaction_type = "Bono Cumpleaños" -> l[i] + 2 * Segundo
                  [] OTHER -> l[i]]]

ApiReserveNuevoReloj ==
    \E e \in EventIds, tel \in Phones, birth \in BirthDates :
        /\ RoomForBooking /\ RoomForMember /\ events[e].exists
        /\ LET t == api_reserve(St, e, 0, tel, birth, TRUE)
           IN \E l \in Lecturas(Len(Nuevas(St, t))) :
                  StoreAt(t, column_default(Nuevas(St, t), l))

AppApiReserveNuevoReloj ==
    \E e \in EventIds, tel \in Phones, birth \in BirthDates :
        /\ RoomForBooking /\ RoomForMember /\ events[e].exists
        /\ LET t == app_api_reserve(St, e, 0, tel, birth, TRUE)
           IN \E l \in Lecturas(Len(Nuevas(St, t))) :
                  StoreAt(t, app_created_at(Nuevas(St, t), l))

NextReloj ==
    \/ Tick
    \/ Budget(MaxOpsReloj) /\ ApiReserveNuevoReloj
    \/ Budget(MaxOpsReloj) /\ AppApiReserveNuevoReloj

SpecReloj == Init /\ [][NextReloj]_vars

\* The end of an event, concluded or deleted, after members enrolled in it
\* and withdrew from it.
NextEvento ==
    \/ Budget(MaxOpsEvento) /\ ApiReserveNuevo
    \/ Budget(MaxOpsEvento) /\ ApiReservePin
    \/ Budget(MaxOpsEvento) /\ CancelBooking
    \/ Budget(MaxOpsEvento) /\ ConcludeEvent
    \/ Budget(MaxOpsEvento) /\ DeleteEvent
    \/ Budget(MaxOpsEvento) /\ AppDeleteEvent

SpecEvento == Init /\ [][NextEvento]_vars

---------------------------------------------------------------------------
(* The properties. *)

\* C1: right after integrity_check on a member has answered, whether it
\* repaired the balance or found it intact, the member's puntos_totales is
\* the sum of the amounts of the member's PointLog entries.
C1_ReconcileIsLedgerSum ==
    (resp.op = "integrity_check" /\ resp.result \in {"info", "success"})
        => members[resp.id].puntos_totales = real_sum(St, resp.id)

\* integrity_check found a gap, wrote the sum as the balance, and the two agree
C1_Witness ==
    /\ resp.op = "integrity_check" /\ resp.result = "info"
    /\ resp.amount # 0
    /\ members[resp.id].puntos_totales = real_sum(St, resp.id)

\* C2: in every reachable state every member's puntos_totales is >= 0.
C2_BalanceNonNegative ==
    \A m \in MemberIds : members[m].exists => members[m].puntos_totales >= 0

\* the 'Bono Cumpleaños' entries of member m written in year y
BonosCumple(s, m, y) ==
    SelectSeq(s.logs, LAMBDA l : /\ l.member_id = m
                                 /\ l.transaction_type = "Bono Cumpleaños"
                                 /\ l.year = y)

\* The requests that run the birthday check on an existing member: a page
\* load, and an enrollment with the PIN in an activity the member has no
\* booking in (rutas.py and app.py).
BirthdayChecks ==
    {<<"inject_global_vars", 0>>}
        \cup {<<"api_reserve", e>> : e \in EventIds}
        \cup {<<"app_api_reserve", e>> : e \in EventIds}

CanCheck(s, k, m) ==
    \/ k[1] = "inject_global_vars"
    \/ /\ k[1] # "inject_global_vars"
       /\ s.events[k[2]].exists
       /\ existing_booking(s, m, k[2]) = 0
       /\ NextId(s.bookings, BookingIds) <= MaxBookings

RunCheck(s, k, m) ==
    IF k[1] = "inject_global_vars" THEN inject_global_vars(s, TRUE)
    ELSE IF k[1] = "api_reserve" THEN api_reserve(s, k[2], m, 0, 0, TRUE)
    ELSE app_api_reserve(s, k[2], m, 0, 0, TRUE)

\* what the request credits for the enrollment itself
Enrolled(s, k) ==
    IF k[1] = "inject_global_vars" THEN 0 ELSE val_pts(s.events[k[2]])

\* C3: for a member whose birthday is today, two birthday checks in a row on
\* the same day (page load and/or enrollment with the PIN, in any order)
\* append at most one 'Bono Cumpleaños' entry and credit the 500 points at
\* most once; after either run ultimo_regalo_bday is the current year; the
\* second run appends no 'Bono Cumpleaños' entry and credits nothing but the
\* points of its own enrollment.
C3_BirthdayCheckTwice ==
    \A m \in MemberIds :
        (members[m].exists /\ is_birthday(members[m].birth_date, today)) =>
            \A x \in BirthdayChecks : CanCheck(St, x, m) =>
                LET s1 == RunCheck(St, x, m)
                    y == today.year
                    n0 == Len(BonosCumple(St, m, y))
                    n1 == Len(BonosCumple(s1, m, y))
                IN /\ s1.members[m].ultimo_regalo_bday = y
                   /\ n1 - n0 \in {0, 1}
                   /\ s1.members[m].puntos_totales =
                         members[m].puntos_totales + Enrolled(St, x) + 500 * (n1 - n0)
                   /\ \A z \in BirthdayChecks : CanCheck(s1, z, m) =>
                         LET s2 == RunCheck(s1, z, m)
                         IN /\ s2.members[m].ultimo_regalo_bday = y
                            /\ BonosCumple(s2, m, y) = BonosCumple(s1, m, y)
                            /\ s2.members[m].puntos_totales =
                                  s1.members[m].puntos_totales + Enrolled(s1, z)
                            /\ Len(LogsOf(s2, m)) - Len(LogsOf(s1, m)) =
                                  (IF z[1] = "inject_global_vars" THEN 0 ELSE 1)

\* a page load granted the bonus to a member on the birthday, and the page
\* load after it, on the same day, granted nothing
C3_Witness ==
    /\ resp.op = "inject_global_vars" /\ resp.result = "nada"
    /\ \E m \in MemberIds :
          /\ members[m].exists
          /\ is_birthday(members[m].birth_date, today)
          /\ members[m].ultimo_regalo_bday = today.year
          /\ Len(BonosCumple(St, m, today.year)) = 1
          /\ Len(notifications) > 0
          /\ notifications[Len(notifications)] =
                AdminNotification("Cumpleaños Automático", m, monto_bono)

\* C4 as stated: each member has at most one 'Bono Cumpleaños' entry per
\* calendar year, whichever request wrote it, obsequiar_cumple included.
C4_OneBonusPerYearAllPaths ==
    \A m \in MemberIds, y \in Years : Len(BonosCumple(St, m, y)) <= 1

\* the entries among them that obsequiar_cumple did not write
BonosAutomaticos(s, m, y) ==
    SelectSeq(BonosCumple(s, m, y),
              LAMBDA l : l.description # "Obsequio Especial de Admin")

\* C4: each member has at most one 'Bono Cumpleaños' entry per calendar year
\* among those the automatic grants write (the page-load grant, the grant on
\* enrollment and the grant at the registration of a new member), and that
\* entry is of 500 points; the entries that obsequiar_cumple writes come on
\* top of it.
C4_OneAutomaticBonusPerYear ==
    \A m \in MemberIds, y \in Years :
        LET q == BonosAutomaticos(St, m, y)
        IN Len(q) <= 1 /\ \A i \in 1..Len(q) : q[i].amount = 500

\* a member holds the automatic bonus of the year and a gift of
\* obsequiar_cumple beside it
C4_Witness ==
    \E m \in MemberIds :
        /\ members[m].exists
        /\ Len(BonosAutomaticos(St, m, today.year)) = 1
        /\ Len(BonosCumple(St, m, today.year)) = 2

\* the enrollment of member m in activity e by either api_reserve, and the
\* withdrawal of the booking it made, one right after the other
EnrollThenWithdraw(s, v, m, e) ==
    cancel_booking(RunCheck(s, <<v, e>>, m), NextId(s.bookings, BookingIds), TRUE)

CanEnroll(s, m, e) ==
    s.members[m].exists /\ CanCheck(s, <<"api_reserve", e>>, m)

\* C5 as stated: enrolling an existing member in an activity the member has
\* no booking in and then withdrawing that booking leaves the balance as it
\* was before the enrollment.
C5_EnrollWithdrawRestores ==
    \A m \in MemberIds, e \in EventIds, v \in {"api_reserve", "app_api_reserve"} :
        CanEnroll(St, m, e) =>
            EnrollThenWithdraw(St, v, m, e).members[m].puntos_totales
                = members[m].puntos_totales

\* C5: enrolling an existing member with balance b in an activity the member
\* has no booking in and then withdrawing that booking leaves the booking
\* 'Retirado' and the balance max(0, b + g), where g is 500 if the enrollment
\* granted the birthday bonus (birthday today, not yet granted this year) and
\* 0 otherwise.
C5_EnrollWithdrawKeepsBonus ==
    \A m \in MemberIds, e \in EventIds, v \in {"api_reserve", "app_api_reserve"} :
        CanEnroll(St, m, e) =>
            LET s2 == EnrollThenWithdraw(St, v, m, e)
                b == NextId(bookings, BookingIds)
                g == IF /\ is_birthday(members[m].birth_date, today)
                        /\ members[m].ultimo_regalo_bday # today.year
                     THEN 500 ELSE 0
            IN /\ s2.bookings[b] =
                     Booking(e, m, val_pts(events[e]), "Retirado")
               /\ s2.resp.result = "warning"
               /\ s2.members[m].puntos_totales =
                     max(0, members[m].puntos_totales + g)

\* a member of an earlier enrollment enrolled again on the birthday and
\* withdrew at once: the last three entries are the bonus, the enrollment
\* and the withdrawal, and the bonus stays
C5_Witness ==
    /\ resp.op = "cancel_booking" /\ resp.result = "warning"
    /\ LET q == LogsOf(St, resp.id2)
           n == Len(q)
       IN /\ n >= 5
          /\ \E i \in 1..(n - 3) : q[i].transaction_type = "Inscripción"
          /\ q[n - 2].transaction_type = "Bono Cumpleaños"
          /\ q[n - 1].transaction_type = "Inscripción"
          /\ q[n - 1].booking_id = resp.id
          /\ q[n].transaction_type = "Retiro"
          /\ q[n].amount = - q[n - 1].amount
          /\ members[resp.id2].puntos_totales
                = SumAmounts(SubSeq(q, 1, n - 3)) + 500

\* the two entries of a gift of amt from member a to member r
RegaloEnviado(s, a, amt) ==
    PointLog(s, a, "Regalo Enviado", "Regalo de cumpleaños para", -amt, 0, FALSE)

RegaloRecibido(s, r, amt) ==
    PointLog(s, r, "Regalo Recibido", "Regalo de cumpleaños de", amt, 0, FALSE)

\* C6: a transferir_regalo of amt from a to r, whether its commit succeeds or
\* fails, either appends the pair 'Regalo Enviado' -amt on a and 'Regalo
\* Recibido' +amt on r and moves exactly amt from a's balance to r's, or
\* changes no balance and no entry; and in every state the two kinds of
\* entries come in such pairs.
C6_TransferAllOrNothing ==
    /\ \A a \in MemberIds, r \in MemberIds, amt \in GiftAmounts, ok \in BOOLEAN :
          (members[a].exists /\ members[r].exists) =>
              LET t == transferir_regalo(St, a, r, amt, ok)
              IN \/ /\ a # r
                    /\ t.logs = logs \o <<RegaloEnviado(St, a, amt),
                                          RegaloRecibido(St, r, amt)>>
                    /\ t.members =
                          [members EXCEPT ![a].puntos_totales = @ - amt,
                                          ![r].puntos_totales = @ + amt]
                 \/ /\ t.logs = logs
                    /\ t.members = members
    /\ \A i \in 1..Len(logs) :
          /\ logs[i].transaction_type = "Regalo Enviado" =>
                /\ i < Len(logs)
                /\ logs[i + 1].transaction_type = "Regalo Recibido"
                /\ logs[i + 1].amount = - logs[i].amount
                /\ logs[i + 1].member_id # logs[i].member_id
          /\ logs[i].transaction_type = "Regalo Recibido" =>
                /\ i > 1
                /\ logs[i - 1].transaction_type = "Regalo Enviado"

\* a gift went through: its two entries close the ledger
C6_Witness ==
    /\ resp.op = "transferir_regalo" /\ resp.result = "success"
    /\ Len(logs) >= 2
    /\ logs[Len(logs) - 1] = RegaloEnviado(St, resp.id, resp.amount)
    /\ logs[Len(logs)] = RegaloRecibido(St, resp.id2, resp.amount)
    /\ resp.amount > 0

\* C7: a transferir_regalo with sender = recipient, or amount <= 0, or the
\* sender's balance < amount, is rejected and leaves every balance, the
\* whole ledger and the notifications as they were: the gift is never cut
\* down to what the sender holds.
C7_TransferRejected ==
    \A a \in MemberIds, r \in MemberIds, amt \in GiftAmounts :
        ( /\ members[a].exists /\ members[r].exists
          /\ (a = r \/ amt <= 0 \/ members[a].puntos_totales < amt) ) =>
            LET t == transferir_regalo(St, a, r, amt, TRUE)
            IN /\ t.members = members
               /\ t.logs = logs
               /\ t.notifications = notifications
               /\ t.resp.result \in {"warning", "danger", "insuficiente"}

\* a gift of more than the sender holds was turned down between two members
\* that hold points
C7_Witness ==
    /\ resp.op = "transferir_regalo" /\ resp.result = "insuficiente"
    /\ \E a \in MemberIds, r \in MemberIds :
          /\ a # r /\ members[a].exists /\ members[r].exists
          /\ members[a].puntos_totales > 0
          /\ \E amt \in GiftAmounts : members[a].puntos_totales < amt

\* the amounts an administrator asks to take off
DebitAmounts == {-a : a \in {x \in AdjustAmounts : x < 0}} \cup {a \in SaldoAmounts : a > 0}

\* the balance and the one new entry after a debit of a on member m
Debited(s, t, m, a) ==
    /\ t.members[m].puntos_totales = max(0, s.members[m].puntos_totales - a)
    /\ Len(t.logs) = Len(s.logs) + 1
    /\ SubSeq(t.logs, 1, Len(s.logs)) = s.logs
    /\ t.logs[Len(t.logs)].member_id = m
    /\ t.logs[Len(t.logs)].amount = -a

\* C8 as stated: every administrative debit of a > 0 on a member with balance
\* b (adjust_points with -a, 'eliminar' of admin_ajuste_saldo, cancel_booking
\* and registrar_no_participacion of an active booking) sets the balance to
\* max(0, b - a) and appends one entry of amount -a.
C8_AdminDebitClamps ==
    /\ \A m \in MemberIds, a \in DebitAmounts :
          members[m].exists =>
              /\ Debited(St, adjust_points(St, m, -a, TRUE), m, a)
              /\ Debited(St, admin_ajuste_saldo(St, m, "eliminar", a, TRUE), m, a)
    /\ \A b \in BookingIds :
          (bookings[b].exists /\ bookings[b].status = "Activo") =>
              LET m == bookings[b].member_id
                  a == bookings[b].points_at_registration
              IN /\ Debited(St, cancel_booking(St, b, TRUE), m, a)
                 /\ Debited(St, registrar_no_participacion(St, b, TRUE), m, a)

\* C10: registrar_no_participacion on an active booking sets its status to
\* 'No Participó', sets the member's balance to max(0, balance -
\* points_at_registration) and appends exactly one entry, with amount
\* -points_at_registration, is_penalized true and the booking's id.
C10_NoShow ==
    \A b \in BookingIds :
        (bookings[b].exists /\ bookings[b].status = "Activo") =>
            LET t == registrar_no_participacion(St, b, TRUE)
                m == bookings[b].member_id
                par == bookings[b].points_at_registration
            IN /\ t.bookings = [bookings EXCEPT ![b].status = "No Participó"]
               /\ t.members =
                     [members EXCEPT ![m].puntos_totales = max(0, @ - par)]
               /\ t.logs = Append(logs,
                     PointLog(St, m, "Penalización", "No participación", -par, b, TRUE))

\* a no-show on a member that held less than the booking recorded: the
\* balance stopped at zero and the entry carries the whole amount
C10_Witness ==
    /\ resp.op = "registrar_no_participacion" /\ resp.result = "warning"
    /\ bookings[resp.id].status = "No Participó"
    /\ members[resp.id2].puntos_totales = 0
    /\ Len(logs) > 0
    /\ logs[Len(logs)].amount = - bookings[resp.id].points_at_registration
    /\ logs[Len(logs)].amount < 0
    /\ logs[Len(logs)].is_penalized
    /\ logs[Len(logs)].booking_id = resp.id

\* the kinds and amounts of a sequence of entries, in its order
KindsAndAmounts(q) ==
    [i \in 1..Len(q) |-> <<q[i].transaction_type, q[i].amount>>]

BonoSi(cond) == IF cond THEN <<(<<"Bono Cumpleaños", 500>>)>> ELSE <<>>

CanRegister(s, e) ==
    /\ s.events[e].exists
    /\ NextId(s.members, MemberIds) <= MaxMembers
    /\ NextId(s.bookings, BookingIds) <= MaxBookings

PhoneTaken(s, tel) ==
    \E x \in MemberIds : s.members[x].exists /\ s.members[x].telefono = tel

\* C9 as stated: the ledger of a member that api_reserve has just created on
\* an activity worth p points is Enrollment +p and WelcomeBonus +500, and
\* BirthdayBonus +500 exactly when today is the birthday, two or three
\* entries; the balance is p + 500 or p + 1000.
C9_NewMemberTwoOrThreeEntries ==
    \A e \in EventIds, tel \in Phones, birth \in BirthDates :
        (CanRegister(St, e) /\ ~PhoneTaken(St, tel)) =>
            LET id == NextId(members, MemberIds)
                pts == events[e].points_reward
                bday == is_birthday(birth, today)
                expected == {<<"Inscripción", pts>>, <<"Bono Bienvenida", 500>>}
                                \cup (IF bday THEN {<<"Bono Cumpleaños", 500>>} ELSE {})
                Holds(t) ==
                    LET q == KindsAndAmounts(LogsOf(t, id))
                    IN /\ Len(q) = Cardinality(expected)
                       /\ {q[i] : i \in 1..Len(q)} = expected
                       /\ t.members[id].puntos_totales =
                             pts + (IF bday THEN 1000 ELSE 500)
                       /\ bday => t.members[id].ultimo_regalo_bday = today.year
            IN /\ Holds(api_reserve(St, e, 0, tel, birth, TRUE))
               /\ Holds(app_api_reserve(St, e, 0, tel, birth, TRUE))

\* C9: the ledger of a member that api_reserve has just created on an
\* activity is, with p = points_reward or 10: in rutas.py 'Bienvenida' 0,
\* 'Bono Bienvenida' +500, 'Bono Cumpleaños' +500 exactly when today is the
\* birthday, 'Inscripción' +p tied to the new booking (three or four
\* entries); in app.py 'Bono Bienvenida' +500, 'Inscripción' +p, and 'Bono
\* Cumpleaños' +500 exactly when today is the birthday (two or three). The
\* balance is p + 500, or p + 1000 on the birthday; ultimo_regalo_bday is
\* the current year on the birthday and 0 otherwise. rutas.py creates no
\* member for a telephone that a member already has.
C9_NewMemberLedger ==
    \A e \in EventIds, tel \in Phones, birth \in BirthDates :
        CanRegister(St, e) =>
            LET id == NextId(members, MemberIds)
                pts == val_pts(events[e])
                bday == is_birthday(birth, today)
                r == api_reserve(St, e, 0, tel, birth, TRUE)
                a == app_api_reserve(St, e, 0, tel, birth, TRUE)
                Account(t) ==
                    /\ t.members[id].exists
                    /\ t.members[id].puntos_totales =
                          pts + (IF bday THEN 1000 ELSE 500)
                    /\ t.members[id].ultimo_regalo_bday =
                          (IF bday THEN today.year ELSE 0)
                    /\ t.bookings[NextId(bookings, BookingIds)] =
                          Booking(e, id, pts, "Activo")
            IN /\ ~PhoneTaken(St, tel) =>
                     /\ Account(r)
                     /\ KindsAndAmounts(LogsOf(r, id)) =
                           <<(<<"Bienvenida", 0>>), (<<"Bono Bienvenida", 500>>)>>
                               \o BonoSi(bday) \o <<(<<"Inscripción", pts>>)>>
                     /\ r.logs[Len(r.logs)].booking_id = NextId(bookings, BookingIds)
               /\ PhoneTaken(St, tel) =>
                     /\ r.members = members /\ r.logs = logs /\ r.bookings = bookings
               /\ Account(a)
               /\ KindsAndAmounts(LogsOf(a, id)) =
                     <<(<<"Bono Bienvenida", 500>>), (<<"Inscripción", pts>>)>>
                         \o BonoSi(bday)

\* rutas.py registered a member on the birthday: four entries, p + 1000 points
C9_Witness ==
    /\ resp.op = "api_reserve" /\ resp.result = "nuevo"
    /\ members[resp.id].exists
    /\ Len(LogsOf(St, resp.id)) = 4
    /\ members[resp.id].puntos_totales = val_pts(events[resp.id2]) + 1000
    /\ members[resp.id].ultimo_regalo_bday = today.year


Inactivos == {"Retirado", "No Participó"}

\* what a rejected request leaves as it was: bookings, balances and ledger
SinCambios(t) ==
    /\ t.bookings = bookings
    /\ t.members = members
    /\ t.logs = logs

\* C12: cancel_booking and registrar_no_participacion on a booking whose
\* status is already "Retirado" or "No Participó" are rejected: the booking's
\* status, the member's balance and the ledger stay as they were.
C12_InactiveRejected ==
    \A b \in BookingIds :
        (bookings[b].exists /\ bookings[b].status \in Inactivos) =>
            /\ SinCambios(cancel_booking(St, b, TRUE))
            /\ SinCambios(registrar_no_participacion(St, b, TRUE))


\* the member holds an active booking of the event
CupoActivo(m, e) ==
    \E b \in BookingIds : /\ bookings[b].exists
                          /\ bookings[b].member_id = m
                          /\ bookings[b].event_id = e
                          /\ bookings[b].status = "Activo"

\* C13: api_reserve with the PIN of a member who already holds an active
\* booking of the activity is rejected, on the route of rutas.py and on the
\* one of app.py: no booking is created or changed, the balance is unchanged
\* and no ledger entry is written.
C13_DuplicateRejected ==
    \A m \in MemberIds, e \in EventIds :
        (members[m].exists /\ events[e].exists /\ CupoActivo(m, e)) =>
            /\ SinCambios(api_reserve(St, e, m, 0, 0, TRUE))
            /\ SinCambios(app_api_reserve(St, e, m, 0, 0, TRUE))
            /\ api_reserve(St, e, m, 0, 0, TRUE).resp.result = "duplicado"
            /\ app_api_reserve(St, e, m, 0, 0, TRUE).resp.result = "duplicado"

\* an enrollment has just been turned down as a duplicate
C13_Witness ==
    /\ resp.op \in {"api_reserve", "app_api_reserve"}
    /\ resp.result = "duplicado"
    /\ \E m \in MemberIds, e \in EventIds : members[m].exists /\ CupoActivo(m, e)


\* a repeat enrollment has brought the booking b of member m back: active
\* again, no other booking touched, one entry more, tied to b, of what the
\* booking recorded at enrollment, and the balance up by as much
Reactivada(t, m, b) ==
    LET par == bookings[b].points_at_registration
    IN /\ t.bookings = [bookings EXCEPT ![b].status = "Activo"]
       /\ Len(t.logs) = Len(logs) + 1
       /\ SubSeq(t.logs, 1, Len(logs)) = logs
       /\ t.logs[Len(t.logs)].member_id = m
       /\ t.logs[Len(t.logs)].booking_id = b
       /\ t.logs[Len(t.logs)].amount = par
       /\ t.members[m].puntos_totales = members[m].puntos_totales + par

\* C14: api_reserve with the PIN of a member whose booking of the activity is
\* "Retirado" or "No Participó" reactivates it, on both routes: the status
\* becomes "Activo", no booking is created, and exactly one credit entry tied
\* to the booking is appended, of the booking's points_at_registration, the
\* balance growing by the same amount.
C14_ReactivationCreditsSnapshot ==
    \A m \in MemberIds, e \in EventIds :
        LET eb == existing_booking(St, m, e)
        IN (/\ members[m].exists /\ events[e].exists
            /\ eb # 0 /\ bookings[eb].status \in Inactivos) =>
               /\ Reactivada(api_reserve(St, e, m, 0, 0, TRUE), m, eb)
               /\ Reactivada(app_api_reserve(St, e, m, 0, 0, TRUE), m, eb)


\* the answer t to a redemption of cost c by member m: a success only with a
\* balance of at least MIN_CANJE and at least c, and then the balance is down
\* by c and one entry of -c is appended; nothing changes when either fails
Canjeado(t, m, c) ==
    LET saldo == members[m].puntos_totales
    IN /\ (t.resp.result = "success") => (saldo >= MIN_CANJE /\ saldo >= c)
       /\ (t.resp.result = "success") =>
              /\ t.members = [members EXCEPT ![m].puntos_totales = saldo - c]
              /\ Len(t.logs) = Len(logs) + 1
              /\ SubSeq(t.logs, 1, Len(logs)) = logs
              /\ t.logs[Len(t.logs)].member_id = m
              /\ t.logs[Len(t.logs)].amount = -c
       /\ (saldo < MIN_CANJE \/ saldo < c) => SinCambios(t)

\* C15: canjear_aventura and canjear_otro of cost c succeed only if the
\* member's balance is at least 5000 and at least c; on success the balance
\* goes down by exactly c and exactly one entry of -c is appended; when either
\* condition fails the balance and the ledger are unchanged.
C15_Redemption ==
    \A m \in MemberIds, c \in CanjeCostos :
        members[m].exists =>
            /\ Canjeado(canjear_otro(St, m, c, TRUE), m, c)
            /\ \A e \in EventIds :
                   events[e].exists => Canjeado(canjear_aventura(St, m, e, c, TRUE), m, c)

\* a redemption has just succeeded, and its debit closes the ledger
C15_Witness ==
    /\ resp.op \in {"canjear_aventura", "canjear_otro"}
    /\ resp.result = "success"
    /\ resp.amount >= MIN_CANJE
    /\ logs[Len(logs)].amount = -resp.amount
    /\ logs[Len(logs)].member_id = resp.id


\* the answer t to a purchase of g points by member m: within the limits the
\* balance is up by g less the 5% withheld and one 'Compra Puntos' entry of
\* that net amount is appended; outside them nothing changes
Comprado(t, m, g) ==
    LET neto == g - ((5 * g) \div 100)
    IN IF COMPRA_MIN <= g /\ g <= COMPRA_MAX
       THEN /\ t.members = [members EXCEPT ![m].puntos_totales = @ + neto]
            /\ Len(t.logs) = Len(logs) + 1
            /\ SubSeq(t.logs, 1, Len(logs)) = logs
            /\ t.logs[Len(t.logs)].member_id = m
            /\ t.logs[Len(t.logs)].transaction_type = "Compra Puntos"
            /\ t.logs[Len(t.logs)].amount = neto
       ELSE SinCambios(t)

\* C16: every purchase of g points, accepted only for 1000 <= g <= 10000,
\* credits the member with g - floor(5*g/100) and appends exactly one
\* 'Compra Puntos' entry of that net amount, from the member's profile
\* (perfil.py) and from the admin panel (puntos.py) alike.
C16_PurchaseNetEveryRoute ==
    \A m \in MemberIds, g \in CompraCantidades :
        members[m].exists =>
            /\ Comprado(comprar_puntos(St, m, g, TRUE), m, g)
            /\ Comprado(puntos_comprar_puntos(St, m, g, TRUE), m, g)


\* what never changes of an entry: its member, its kind and its amount
Core(l) ==
    [member_id |-> l.member_id, transaction_type |-> l.transaction_type,
     amount |-> l.amount]

CoreSeq(q) == [i \in 1..Len(q) |-> Core(q[i])]

\* a step that keeps every entry, in its place, and may append new ones
Permanece ==
    /\ Len(logs') >= Len(logs)
    /\ \A i \in 1..Len(logs) : Core(logs'[i]) = Core(logs[i])

\* a step that purges a member: all of the member's entries go, no other
Purga ==
    \E m \in MemberIds :
        /\ members[m].exists /\ ~members'[m].exists
        /\ CoreSeq(logs') = CoreSeq(SelectSeq(logs, LAMBDA l : l.member_id # m))

\* C17: the ledger is append-only. No step of any request
\* deletes an entry or changes its member, kind or amount, except that
\* delete_member deletes all the entries of the member (conclude_event only
\* clears booking_id, which is none of the three).
C17_AppendOnly == [][Permanece \/ Purga]_vars


\* C18: conclude_event leaves the balance of every member as it was and the
\* member, kind and amount of every ledger entry as they were, deletes no
\* entry, and afterwards no entry references a booking of the event.
C18_ConcludeKeepsPoints ==
    \A e \in EventIds :
        events[e].exists =>
            LET t == conclude_event(St, e, 0)
            IN /\ t.resp.result = "success"
               /\ t.members = members
               /\ CoreSeq(t.logs) = CoreSeq(logs)
               /\ \A i \in 1..Len(t.logs) :
                      /\ t.logs[i].booking_id \notin bookings_of(St, e)
                      /\ t.logs[i].booking_id \notin bookings_of(t, e)
               /\ bookings_of(t, e) = {}

\* an event has just been concluded after a member enrolled in it and
\* withdrew: both entries are still in the ledger, tied to no booking
C18_Witness ==
    /\ resp.op = "conclude_event" /\ resp.result = "success"
    /\ \E i, j \in 1..Len(logs) :
           /\ logs[i].description = "Inscripción (Evento Concluido)"
           /\ logs[i].booking_id = 0 /\ logs[i].amount > 0
           /\ logs[j].description = "Deducción por retiro (Evento Concluido)"
           /\ logs[j].booking_id = 0 /\ logs[j].amount < 0


\* the positive entries tied to a booking of the event e
Ligadas(e) ==
    {i \in 1..Len(logs) : logs[i].booking_id \in bookings_of(St, e) /\ logs[i].amount > 0}

\* what those of them that belong to member m add up to
RECURSIVE SumaLigadas(_, _, _)
SumaLigadas(e, m, i) ==
    IF i > Len(logs) THEN 0
    ELSE (IF i \in Ligadas(e) /\ logs[i].member_id = m THEN logs[i].amount ELSE 0)
         + SumaLigadas(e, m, i + 1)

\* C19: delete_event of logistica.py reverses every positive entry tied to a
\* booking of the event: the balance of the member who owns such entries goes
\* down by their amounts, stopping at 0, the entries leave the ledger and so
\* the member's ledger sum, and the balance of a member who owns none is
\* unchanged.
C19_RadicalDeleteReverses ==
    \A e \in EventIds :
        events[e].exists =>
            LET t == delete_event(St, e, TRUE)
            IN /\ t.resp.result = "success"
               /\ t.logs = SelectSeq(logs, LAMBDA l : ~(/\ l.booking_id \in bookings_of(St, e)
                                                        /\ l.amount > 0))
               /\ \A m \in MemberIds :
                      members[m].exists =>
                          t.members[m].puntos_totales =
                              IF SumaLigadas(e, m, 1) = 0
                              THEN members[m].puntos_totales
                              ELSE max(0, members[m].puntos_totales - SumaLigadas(e, m, 1))


\* a bonus of the year is still due to a member whose birthday is today
BonoPendiente ==
    \E m \in MemberIds :
        /\ members[m].exists
        /\ is_birthday(members[m].birth_date, today)
        /\ members[m].ultimo_regalo_bday # today.year

\* C20: when the commit of a request that writes to the ledger fails
\* (enrollment, reactivation, withdrawal, no-show, adjustment, transfer,
\* redemption, purchase, birthday grant), the request leaves no trace: no
\* entry is added, no balance changes, no booking changes its status and no
\* ultimo_regalo_bday changes.
C20_FailedCommitLeavesNoTrace ==
    /\ \A e \in EventIds, pin \in MemberIds \cup {0}, tel \in Phones, birth \in BirthDates :
           (/\ RoomForBooking /\ RoomForMember /\ events[e].exists
            /\ pin # 0 => members[pin].exists) =>
               /\ SinCambios(api_reserve(St, e, pin, tel, birth, FALSE))
               /\ SinCambios(app_api_reserve(St, e, pin, tel, birth, FALSE))
    /\ \A b \in BookingIds :
           bookings[b].exists =>
               /\ SinCambios(cancel_booking(St, b, FALSE))
               /\ SinCambios(registrar_no_participacion(St, b, FALSE))
    /\ \A m \in MemberIds :
           members[m].exists =>
               /\ \A a \in AdjustAmounts : SinCambios(adjust_points(St, m, a, FALSE))
               /\ \A act \in SaldoActions, a \in SaldoAmounts :
                      /\ SinCambios(admin_ajuste_saldo(St, m, act, a, FALSE))
                      /\ SinCambios(puntos_admin_ajuste_saldo(St, m, act, a, FALSE))
               /\ \A r \in MemberIds, amt \in GiftAmounts :
                      members[r].exists => SinCambios(transferir_regalo(St, m, r, amt, FALSE))
               /\ \A c \in CanjeCostos :
                      /\ SinCambios(canjear_otro(St, m, c, FALSE))
                      /\ \A e \in EventIds :
                             events[e].exists => SinCambios(canjear_aventura(St, m, e, c, FALSE))
               /\ \A c \in CompraCantidades :
                      /\ SinCambios(comprar_puntos(St, m, c, FALSE))
                      /\ SinCambios(puntos_comprar_puntos(St, m, c, FALSE))
               /\ \A c \in CumpleAmounts : SinCambios(obsequiar_cumple(St, m, c, FALSE))
    /\ SinCambios(inject_global_vars(St, FALSE))

\* the commit of the page-load birthday grant has just failed: the bonus is
\* still due and the ledger holds no entry of it
C20_Witness ==
    /\ resp.op = "inject_global_vars" /\ resp.result = "error"
    /\ BonoPendiente
    /\ Len(logs) > 0


\* C21: whatever the interleaving of two birthday checks of the same member
\* on the same day, served at the same time (inject_global_vars, api_reserve
\* with the PIN), exactly one of them grants: once both have answered the
\* member holds one 'Bono Cumpleaños' entry of the year.
C21_OneGrantWhenConcurrent ==
    Quiescent =>
        \A m \in MemberIds, y \in Years :
            members[m].exists => Len(BonosCumple(St, m, y)) <= 1

\* C22: no update is lost between two operations on the balance of the same
\* member served at the same time: the commit of each leaves every balance as
\* the operation leaves it when it runs on the database of that moment, that
\* is, after the other one.
C22_NoLostUpdate ==
    [][\A r \in Requests :
          (sessions[r] # Idle /\ sessions'[r] = Idle) =>
              \A m \in MemberIds :
                  members'[m].puntos_totales =
                      Run(sessions[r].req, Leido(St)).members[m].puntos_totales]_vars

\* the balances of all the members, added up
RECURSIVE SumaSaldos(_, _)
SumaSaldos(mm, ids) ==
    IF ids = {} THEN 0
    ELSE LET m == CHOOSE x \in ids : TRUE
         IN mm[m].puntos_totales + SumaSaldos(mm, ids \ {m})

\* C23: gifts in opposite directions between the same two members, served at
\* the same time, both come to their answer whatever the interleaving (a
\* request being served can always take its next step), and the second of
\* them to commit, like the first, leaves the sum of the balances as it was:
\* after the two gifts the sum of A's and B's balances is the sum before them.
C23_OppositeTransfers ==
    [][\A r \in Requests :
          sessions[r] # Idle =>
              /\ ENABLED (Releer(r) \/ Confirmar(r))
              /\ ( /\ sessions'[r] = Idle
                   /\ sessions[r].req.op = "transferir_regalo"
                   /\ resp.op = "transferir_regalo" /\ resp.result = "success"
                   /\ resp.id = sessions[r].req.m2 /\ resp.id2 = sessions[r].req.m )
                 => SumaSaldos(members', MemberIds) = SumaSaldos(members, MemberIds)]_vars

\* C24: integrity_check on a member leaves the ledger and every other
\* member as they are; when the balance is the sum of the member's ledger it
\* changes nothing, and when it is not it writes the sum as the balance and
\* one admin notification whose amount is the sum less the balance it found.
C24_ReconcileFrame ==
    \A m \in MemberIds :
        members[m].exists =>
            LET t == integrity_check(St, m)
                sum == real_sum(St, m)
            IN /\ t.logs = logs
               /\ \A o \in MemberIds \ {m} : t.members[o] = members[o]
               /\ members[m].puntos_totales = sum =>
                     /\ t.members = members
                     /\ t.notifications = notifications
               /\ members[m].puntos_totales # sum =>
                     /\ t.members[m] = [members[m] EXCEPT !.puntos_totales = sum]
                     /\ t.notifications =
                            Append(notifications,
                                   AdminNotification("Corrección de Integridad", m,
                                                     sum - members[m].puntos_totales))

\* integrity_check has just repaired a balance and its notification, the
\* last one, carries the gap it found
C24_Witness ==
    /\ resp.op = "integrity_check" /\ resp.result = "info" /\ resp.amount # 0
    /\ notifications # <<>>
    /\ notifications[Len(notifications)] =
           AdminNotification("Corrección de Integridad", resp.id, resp.amount)
    /\ members[resp.id].puntos_totales = real_sum(St, resp.id)

\* the second of two requests served together answers: session r commits and
\* leaves no request being served
UltimaEnResponder(r) ==
    sessions[r] # Idle /\ sessions'[r] = Idle /\ \A o \in Requests : sessions'[o] = Idle

\* C25: when the balance of a member is the sum of their ledger and an audit
\* of the member and one operation on the member's ledger start together,
\* then whatever the interleaving, once both have committed the balance is
\* the sum of the ledger.
C25_ReconcileConcurrent ==
    [][\A r \in Requests :
          UltimaEnResponder(r) =>
              LET m == sessions[r].req.m
                  antes == sessions[r].antes
              IN antes.members[m].puntos_totales = real_sum(antes, m) =>
                     members'[m].puntos_totales = SumAmounts(LogsOf([logs |-> logs'], m))]_vars

\* C25, as the code has it: once the audit and the operation that started
\* together on a member whose balance was the sum of the ledger have both
\* committed, the balance is the sum of the ledger, or it is the balance the
\* operation leaves when it runs alone and that one is not the sum of the
\* ledger (a withdrawal of more points than the member holds leaves 0 and
\* logs the whole amount): the audit never writes a balance that is not the
\* sum it read, and never undoes the operation.
C25_ReconcileOrOperation ==
    [][\A r \in Requests :
          UltimaEnResponder(r) =>
              LET m == sessions[r].req.m
                  antes == sessions[r].antes
                  sola == IF sessions[r].req.op = "integrity_check"
                          THEN St
                          ELSE Run(sessions[r].req, antes)
                  suma == SumAmounts(LogsOf([logs |-> logs'], m))
              IN antes.members[m].puntos_totales = real_sum(antes, m) =>
                     \/ members'[m].puntos_totales = suma
                     \/ /\ members'[m].puntos_totales = sola.members[m].puntos_totales
                        /\ sola.members[m].puntos_totales # real_sum(sola, m)]_vars

\* the audit has just answered after the operation it started with: it had
\* read the balance before the operation and the sum after it, and repaired
\* the balance by the amount of the operation's entry
C25_Witness ==
    /\ Quiescent
    /\ resp.op = "integrity_check" /\ resp.result = "info"
    /\ LogsOf(St, resp.id) # <<>>
    /\ resp.amount = LogsOf(St, resp.id)[Len(LogsOf(St, resp.id))].amount
    /\ members[resp.id].puntos_totales = real_sum(St, resp.id)

\* C26: once delete_member of a member has committed, the member's row is
\* gone and no booking and no ledger entry of that member remains; the
\* balance, the bookings and the ledger entries of every other member are as
\* they were.
C26_DeleteMemberCascade ==
    \A m \in MemberIds :
        members[m].exists =>
            LET t == delete_member(St, m, TRUE)
            IN /\ ~t.members[m].exists
               /\ \A b \in BookingIds : ~(t.bookings[b].exists /\ t.bookings[b].member_id = m)
               /\ LogsOf(t, m) = <<>>
               /\ \A o \in MemberIds \ {m} :
                     /\ t.members[o] = members[o]
                     /\ LogsOf(t, o) = LogsOf(St, o)
               /\ \A b \in BookingIds :
                     (bookings[b].exists /\ bookings[b].member_id # m) =>
                         t.bookings[b] = bookings[b]

\* delete_member has just deleted a member who had a ledger, and another
\* member is left with theirs
C26_Witness ==
    /\ resp.op = "delete_member" /\ resp.result = "success"
    /\ ~members[resp.id].exists
    /\ LogsOf(St, resp.id) = <<>>
    /\ \E o \in MemberIds \ {resp.id} :
          /\ members[o].exists /\ LogsOf(St, o) # <<>>
          /\ \E b \in BookingIds : bookings[b].exists /\ bookings[b].member_id = o

\* C27: in every reachable state, those reached by two enrollments of the
\* same member in the same activity served at the same time included, there
\* is at most one booking of a member in an activity.
C27_OneBookingPerPair ==
    \A b1 \in BookingIds, b2 \in BookingIds :
        ( /\ bookings[b1].exists /\ bookings[b2].exists
          /\ bookings[b1].member_id = bookings[b2].member_id
          /\ bookings[b1].event_id = bookings[b2].event_id ) => b1 = b2

\* the place of an entry in the order welcome bonus, enrollment, birthday
\* bonus; 0 for the other entries
Orden(type) ==
    CASE type = "Bono Bienvenida" -> 1
      [] type = "Inscripción" -> 2
      [] type = "Bono Cumpleaños" -> 3
      [] OTHER -> 0

\* C28: the ledger entries written by the first enrollment of a new member
\* carry distinct creation timestamps, increasing in the order welcome bonus,
\* enrollment, birthday bonus, so that sorting by created_at gives that order.
C28_IncreasingTimestamps ==
    \A i \in DOMAIN created_at, j \in DOMAIN created_at :
        /\ i # j => created_at[i].at # created_at[j].at
        /\ ( /\ Orden(created_at[i].transaction_type) # 0
             /\ Orden(created_at[i].transaction_type) < Orden(created_at[j].transaction_type) )
           => created_at[i].at < created_at[j].at

\* C29: when the admin notification cannot be written (its INSERT fails in
\* the flush of the request, ok = FALSE), the ledger operation commits all
\* the same: the no-show and the gift leave the ledger, the balances and the
\* bookings as they leave them when the notification is written.
C29_NotificationFailureTolerated ==
    /\ \A b \in BookingIds :
          bookings[b].exists =>
              LET t == registrar_no_participacion(St, b, FALSE)
                  u == registrar_no_participacion(St, b, TRUE)
              IN t.logs = u.logs /\ t.members = u.members /\ t.bookings = u.bookings
    /\ \A a \in MemberIds, b \in MemberIds, amt \in GiftAmounts :
          (members[a].exists /\ members[b].exists) =>
              LET t == transferir_regalo(St, a, b, amt, FALSE)
                  u == transferir_regalo(St, a, b, amt, TRUE)
              IN t.logs = u.logs /\ t.members = u.members

\* the status of booking b after the enrollment of its member in its
\* activity with the PIN, the withdrawal and the no-show, from the database s
TrasReserva(s, b) == api_reserve(s, s.bookings[b].event_id, s.bookings[b].member_id, 0, 0, TRUE)
TrasRetiro(s, b) == cancel_booking(s, b, TRUE)
TrasAusencia(s, b) == registrar_no_participacion(s, b, TRUE)

\* C30: no status of a booking is terminal. An active booking is withdrawn
\* by cancel_booking and marked as no-show by registrar_no_participacion; a
\* withdrawn one is made active by the enrollment with the PIN and from there
\* marked as no-show; a no-show one is made active by the enrollment with the
\* PIN and from there withdrawn.
C30_NoTerminalStatus ==
    \A b \in BookingIds :
        bookings[b].exists =>
            /\ bookings[b].status = "Activo" =>
                  /\ TrasRetiro(St, b).bookings[b].status = "Retirado"
                  /\ TrasAusencia(St, b).bookings[b].status = "No Participó"
            /\ bookings[b].status = "Retirado" =>
                  /\ TrasReserva(St, b).bookings[b].status = "Activo"
                  /\ TrasAusencia(TrasReserva(St, b), b).bookings[b].status = "No Participó"
            /\ bookings[b].status = "No Participó" =>
                  /\ TrasReserva(St, b).bookings[b].status = "Activo"
                  /\ TrasRetiro(TrasReserva(St, b), b).bookings[b].status = "Retirado"

\* a booking has been through the three statuses and back: its ledger holds
\* a penalty, then a reactivation, then a withdrawal, and it is 'Retirado'
C30_Witness ==
    \E b \in BookingIds :
        /\ bookings[b].exists /\ bookings[b].status = "Retirado"
        /\ \E i \in DOMAIN logs, j \in DOMAIN logs, k \in DOMAIN logs :
              /\ i < j /\ j < k
              /\ logs[i].booking_id = b /\ logs[i].transaction_type = "Penalización"
              /\ logs[j].booking_id = b /\ logs[j].transaction_type = "Reactivación"
              /\ logs[k].booking_id = b /\ logs[k].transaction_type = "Retiro"

\* C39: integrity_check run twice in a row on the same member, with nothing
\* in between, finds no gap the second time: it answers that the account is
\* whole, changes no balance and writes no notification.
C39_ReconcileIdempotent ==
    \A m \in MemberIds :
        members[m].exists =>
            LET t == integrity_check(St, m)
                u == integrity_check(t, m)
            IN /\ u.resp.result = "success"
               /\ u.members = t.members
               /\ u.notifications = t.notifications
               /\ u.logs = t.logs

\* integrity_check has just answered that the account is whole, right after
\* the run that repaired it: the last notification is that repair
C39_Witness ==
    /\ resp.op = "integrity_check" /\ resp.result = "success"
    /\ notifications # <<>>
    /\ notifications[Len(notifications)].title = "Corrección de Integridad"
    /\ notifications[Len(notifications)].member_id = resp.id
    /\ notifications[Len(notifications)].amount # 0

\* ---------------------------------------------------------------------------
\* Concluding an activity when one of its two commits fails

MaxOpsConcluir == 4

\* the two db.session.commit() of conclude_event
CommitsConcluir == 1..2

ConcludeEventFalla ==
    \E e \in EventIds, f \in CommitsConcluir :
        events[e].exists /\ Store(conclude_event(St, e, f))

NextConcluir ==
    \/ Budget(MaxOpsConcluir) /\ ApiReserveNuevo
    \/ Budget(MaxOpsConcluir) /\ ApiReservePin
    \/ Budget(MaxOpsConcluir) /\ CancelBooking
    \/ Budget(MaxOpsConcluir) /\ ConcludeEvent
    \/ ConcludeEventFalla

SpecConcluir == Init /\ [][NextConcluir]_vars

\* C38: concluding an activity is all-or-nothing: either the activity and its
\* bookings are gone and the entries tied to them are detached, or, when one
\* of the commits fails, the activity still exists and the ledger and the
\* bookings are as they were (every entry keeps its booking_id and its
\* description).
C38_ConcludeAllOrNothing ==
    \A e \in EventIds, f \in {0} \cup CommitsConcluir :
        events[e].exists =>
            LET t == conclude_event(St, e, f)
            IN \/ /\ t.resp.result = "success"
                  /\ ~t.events[e].exists
                  /\ \A b \in BookingIds :
                         ~(t.bookings[b].exists /\ t.bookings[b].event_id = e)
                  /\ t.logs = detach(St, e).logs
               \/ /\ t.resp.result # "success"
                  /\ t.events[e].exists
                  /\ t.logs = logs
                  /\ t.bookings = bookings

\* C37: a booking's points_at_registration is written when the booking is
\* created and by nothing afterwards: across every step, a booking that is
\* still there holds the points_at_registration it held before, whether the
\* step edited the activity's reward, withdrew the booking, recorded a
\* no-show or reactivated it.
C37_PointsAtRegistrationFrozen ==
    [][\A b \in BookingIds :
           bookings[b].exists /\ bookings'[b].exists =>
               bookings'[b].points_at_registration = bookings[b].points_at_registration]_vars

\* a booking reactivated after the activity's reward was edited
C37_Witness ==
    /\ resp.op = "api_reserve" /\ resp.result = "reactivado"
    /\ \E b \in BookingIds :
           /\ bookings[b].exists
           /\ bookings[b].member_id = resp.id /\ bookings[b].event_id = resp.id2
           /\ bookings[b].status = "Activo"
           /\ bookings[b].points_at_registration # resp.amount
           /\ bookings[b].points_at_registration # 0

\* the member's ledger holds a birthday bonus granted in year y
BonoDelAnio(lg, m, y) ==
    \E i \in 1..Len(lg) :
        /\ lg[i].member_id = m
        /\ lg[i].transaction_type = "Bono Cumpleaños"
        /\ lg[i].amount > 0
        /\ lg[i].year = y

\* C36: a member whose ultimo_regalo_bday is a year Y > 0 has in the ledger
\* a 'Bono Cumpleaños' entry granted in year Y, in the first state and after
\* every step; and no step lowers the ultimo_regalo_bday of a member.
C36_BirthdayYearBacked ==
    /\ \A m \in MemberIds :
           members[m].exists /\ members[m].ultimo_regalo_bday > 0 =>
               BonoDelAnio(logs, m, members[m].ultimo_regalo_bday)
    /\ [][/\ \A m \in MemberIds :
                 members'[m].exists /\ members'[m].ultimo_regalo_bday > 0 =>
                     BonoDelAnio(logs', m, members'[m].ultimo_regalo_bday)
          /\ \A m \in MemberIds :
                 members[m].exists /\ members'[m].exists =>
                     members'[m].ultimo_regalo_bday >= members[m].ultimo_regalo_bday]_vars

\* a member granted the bonus in two successive years
C36_Witness ==
    \E m \in MemberIds :
        /\ members[m].exists
        /\ members[m].ultimo_regalo_bday = 2
        /\ BonoDelAnio(logs, m, 1)
        /\ BonoDelAnio(logs, m, 2)

\* the kinds of entry that take points and the kinds that give them
KindsDebit ==
    {"Retiro", "Penalización", "Penalización Admin", "Canje Aventura",
     "Canje Otro", "Regalo Enviado"}

KindsCredit ==
    {"Inscripción", "Reactivación", "Bono Bienvenida", "Bono Cumpleaños",
     "Restitución Admin", "Donación Admin", "Compra Puntos", "Regalo Recibido"}

\* C35: the sign of a ledger entry matches its kind: withdrawals, no-shows
\* and penalties, redemptions and gifts sent have amount <= 0; enrollments,
\* reactivations, welcome and birthday bonuses, restitutions, donations,
\* purchases and gifts received have amount >= 0; and a redemption that
\* succeeds never leaves the member with more points than before.
C35_SignMatchesKind ==
    /\ \A i \in 1..Len(logs) :
           /\ logs[i].transaction_type \in KindsDebit => logs[i].amount <= 0
           /\ logs[i].transaction_type \in KindsCredit => logs[i].amount >= 0
    /\ \A m \in MemberIds, e \in EventIds, c \in CanjeCostos :
           members[m].exists /\ events[e].exists =>
               LET t == canjear_aventura(St, m, e, c, TRUE)
               IN t.resp.result = "success" =>
                      t.members[m].puntos_totales <= members[m].puntos_totales

\* the sum of the entries of ledger lg tied to booking b
SumaDeReserva(lg, b) == SumAmounts(SelectSeq(lg, LAMBDA l : l.booking_id = b))

\* member m has exactly one booking for activity e, it is withdrawn or a
\* no-show, and a debit tied to it has taken back what the booking credited
YaRevertida(m, e) ==
    LET suyas == {b \in BookingIds : /\ bookings[b].exists
                                     /\ bookings[b].member_id = m
                                     /\ bookings[b].event_id = e}
    IN /\ Cardinality(suyas) = 1
       /\ \A b \in suyas :
              /\ bookings[b].status \in {"Retirado", "No Participó"}
              /\ \E i \in 1..Len(logs) : logs[i].booking_id = b /\ logs[i].amount < 0
              /\ SumaDeReserva(logs, b) = 0

\* C34: the radical delete of an activity leaves as it was the balance of
\* every member whose only booking for the activity is already withdrawn or
\* a no-show, its credit already taken back by a debit entry: nobody is
\* debited twice for the same enrollment.
C34_NoDoubleDebit ==
    \A e \in EventIds, m \in MemberIds :
        events[e].exists /\ members[m].exists /\ YaRevertida(m, e) =>
            LET t == delete_event(St, e, TRUE)
            IN t.members[m].puntos_totales = members[m].puntos_totales

\* C33: withdrawing an active booking and then reactivating it never leaves
\* the member with more points than before the withdrawal, whatever the
\* balance, with or without an edit of the activity's points_reward in
\* between; so no repetition of the cycle can raise the balance.
C33_CycleNeverGains ==
    \A b \in BookingIds :
        bookings[b].exists /\ bookings[b].status = "Activo" =>
            LET m == bookings[b].member_id
                e == bookings[b].event_id
                t1 == cancel_booking(St, b, TRUE)
            IN /\ LET t3 == api_reserve_pin(t1, e, m)
                  IN t3.resp.result = "reactivado" =>
                         t3.members[m].puntos_totales <= members[m].puntos_totales
               /\ \A p \in EventPoints :
                      LET t2 == edit_event(t1, e, p, TRUE)
                          t3 == api_reserve_pin(t2, e, m)
                      IN t3.resp.result = "reactivado" =>
                             t3.members[m].puntos_totales <= members[m].puntos_totales

\* C32: for every booking, the amounts of the ledger entries tied to it add
\* up to its points_at_registration while it is 'Activo' and to 0 while it
\* is 'Retirado' or 'No Participó'.
C32_TiedEntriesMatchStatus ==
    \A b \in BookingIds :
        bookings[b].exists =>
            /\ bookings[b].status = "Activo" =>
                   SumaDeReserva(logs, b) = bookings[b].points_at_registration
            /\ bookings[b].status \in {"Retirado", "No Participó"} =>
                   SumaDeReserva(logs, b) = 0

\* member m's balance is the sum of member m's entries
Cuadra(mm, lg, m) ==
    mm[m].exists =>
        mm[m].puntos_totales = SumAmounts(SelectSeq(lg, LAMBDA l : l.member_id = m))

\* the step debited member m by more than m had: the balance stopped at 0
\* while the ledger went down by the whole amount
Recorte(m) ==
    /\ members[m].exists /\ members'[m].exists
    /\ members'[m].puntos_totales = 0
    /\ real_sum([logs |-> logs'], m) - real_sum([logs |-> logs], m)
           < members'[m].puntos_totales - members[m].puntos_totales

\* C31: starting where every balance is the sum of the member's entries, as
\* long as no debit exceeds the balance it is taken from (max(0, .) never
\* clamps), every balance stays equal to the sum of the member's entries
\* after every step, with no integrity_check needed: a step from a state
\* where all balances match leaves unmatched only a member it debited
\* beyond the balance.
C31_DivergeOnlyByClamp ==
    [][(\A m \in MemberIds : Cuadra(members, logs, m)) =>
           \A m \in MemberIds : Recorte(m) \/ Cuadra(members', logs', m)]_vars

=============================================================================
